---------------------------- MODULE Spec2Model ----------------------------
(* A model of the data repository cache (getData) and of the query engine  *)
(* (performExactSearch, getExpiredAccounts, calculateExpirationDate) of    *)
(* the subscription lookup application.  Strings are TLA+ strings read     *)
(* character by character with SubSeq; a Map is a sequence of entries      *)
(* [key, row] with distinct keys, in insertion order.                      *)
EXTENDS Integers, Sequences, FiniteSets, TLC

-----------------------------------------------------------------------------
(* Strings: the JavaScript string operations the code uses.                *)

\* The value of a property that an object does not have.
Undefined == "<undefined>"

\* The i-th character of s, as a string of length 1.
Ch(s, i) == SubSeq(s, i, i)

UpperChars == "ABCDEFGHIJKLMNOPQRSTUVWXYZ"
LowerChars == "abcdefghijklmnopqrstuvwxyz"
DigitChars == "0123456789"
\* The characters of the model in the order of their UTF-16 code units.
CodeOrder == " -./0123456789@ABCDEFGHIJKLMNOPQRSTUVWXYZ_abcdefghijklmnopqrstuvwxyz"

CharsOf(alphabet) == {Ch(alphabet, i) : i \in 1..Len(alphabet)}

\* The place of each character of the alphabet in it.
IndexTable(alphabet) ==
  [c \in CharsOf(alphabet) |-> CHOOSE i \in 1..Len(alphabet) : Ch(alphabet, i) = c]

CodeUnit == IndexTable(CodeOrder)
DigitValue == [c \in CharsOf(DigitChars) |-> IndexTable(DigitChars)[c] - 1]
LowerOf == [c \in CharsOf(UpperChars) |-> Ch(LowerChars, IndexTable(UpperChars)[c])]
AlnumChars == CharsOf(DigitChars) \cup CharsOf(UpperChars) \cup CharsOf(LowerChars)

IsDigit(c) == c \in DOMAIN DigitValue
IsAlnum(c) == c \in AlnumChars
IsSpace(c) == c = " "

LowerCh(c) == IF c \in DOMAIN LowerOf THEN LowerOf[c] ELSE c

RECURSIVE toLowerCase(_)
toLowerCase(s) ==
  IF s = "" THEN "" ELSE LowerCh(Head(s)) \o toLowerCase(Tail(s))

RECURSIVE trimStart(_)
trimStart(s) ==
  IF s # "" /\ IsSpace(Head(s)) THEN trimStart(Tail(s)) ELSE s

RECURSIVE trimEnd(_)
trimEnd(s) ==
  IF s # "" /\ IsSpace(Ch(s, Len(s))) THEN trimEnd(SubSeq(s, 1, Len(s) - 1)) ELSE s

trim(s) == trimEnd(trimStart(s))

\* a <= b on JavaScript strings: by code unit, a proper prefix first.
RECURSIVE StrLE(_, _)
StrLE(a, b) ==
  IF a = "" THEN TRUE
  ELSE IF b = "" THEN FALSE
  ELSE IF Head(a) = Head(b) THEN StrLE(Tail(a), Tail(b))
  ELSE CodeUnit[Head(a)] < CodeUnit[Head(b)]

\* The number of leading decimal digits of s, at most n.
RECURSIVE LeadingDigits(_, _)
LeadingDigits(s, n) ==
  IF n = 0 \/ s = "" \/ ~IsDigit(Head(s)) THEN 0
  ELSE 1 + LeadingDigits(Tail(s), n - 1)

\* parseInt(s, 10) of a string of decimal digits.
RECURSIVE parseInt(_)
parseInt(s) ==
  IF s = "" THEN 0
  ELSE 10 * parseInt(SubSeq(s, 1, Len(s) - 1)) + DigitValue[Ch(s, Len(s))]

\* The decimal digits of a natural number.
RECURSIVE NatToStr(_)
NatToStr(n) ==
  IF n < 10 THEN Ch(DigitChars, n + 1)
  ELSE NatToStr(n \div 10) \o Ch(DigitChars, (n % 10) + 1)

\* A faulty variant that pads nothing.
addLeadingZerosNone(n, w) == NatToStr(n)

\* addLeadingZeros of date-fns: at least w digits.
RECURSIVE addLeadingZeros(_, _)
addLeadingZeros(n, w) ==
  LET s == NatToStr(n) IN
  IF Len(s) >= w THEN s ELSE "0" \o addLeadingZeros(n, w - 1)

-----------------------------------------------------------------------------
(* Dates: date-fns parse, isValid, addMonths, addYears and format with the *)
(* pattern yyyyMMdd.  A date is [y, m, d]; InvalidDate is new Date(NaN).   *)

InvalidDate == [y |-> 0, m |-> 0, d |-> 0]

isLeapYear(y) == (y % 4 = 0 /\ y % 100 # 0) \/ y % 400 = 0

DaysInMonth(y, m) ==
  IF m = 2 THEN (IF isLeapYear(y) THEN 29 ELSE 28)
  ELSE IF m \in {4, 6, 9, 11} THEN 30 ELSE 31

\* parse(s, 'yyyyMMdd', new Date()): yyyy takes one to four digits, MM and
\* dd one or two each, greedily; whatever follows must be whitespace.
parseDate(s) ==
  LET ny == LeadingDigits(s, 4)
      r1 == SubSeq(s, ny + 1, Len(s))
      nm == LeadingDigits(r1, 2)
      r2 == SubSeq(r1, nm + 1, Len(r1))
      nd == LeadingDigits(r2, 2)
      r3 == SubSeq(r2, nd + 1, Len(r2))
      y  == parseInt(SubSeq(s, 1, ny))
      m  == parseInt(SubSeq(r1, 1, nm))
      d  == parseInt(SubSeq(r2, 1, nd))
  IN IF ny = 0 \/ nm = 0 \/ nd = 0 THEN InvalidDate
     ELSE IF trim(r3) # "" THEN InvalidDate
     ELSE IF y <= 0 \/ m < 1 \/ m > 12 THEN InvalidDate
     ELSE IF d < 1 \/ d > DaysInMonth(y, m) THEN InvalidDate
     ELSE [y |-> y, m |-> m, d |-> d]

isValidDate(date) == date # InvalidDate

\* The last month whose last day a Date can hold: the time value of a Date
\* ends on 13 September 275760, so it is August 275760.
LastMonthIndex == 275760 * 12 + 7

\* addMonths: the same day of the month, or the last day of the target
\* month when that month is shorter; an Invalid Date when the last day of
\* the target month is beyond the range of Date.
addMonths(date, amount) ==
  LET total == date.y * 12 + (date.m - 1) + amount
      ny    == total \div 12
      nm    == (total % 12) + 1
      dim   == DaysInMonth(ny, nm)
  IN IF amount = 0 THEN date
     ELSE IF total > LastMonthIndex THEN InvalidDate
     ELSE [y |-> ny, m |-> nm, d |-> IF date.d >= dim THEN dim ELSE date.d]

\* A faulty variant that takes the years for months.
addYearsAsMonths(date, amount) == addMonths(date, amount)

\* addYears(date, amount) is addMonths(date, amount * 12).
addYears(date, amount) == addMonths(date, amount * 12)

\* format(date, 'yyyyMMdd') of a valid date; it throws for an Invalid Date.
format(date) ==
  addLeadingZeros(date.y, 4) \o addLeadingZeros(date.m, 2) \o addLeadingZeros(date.d, 2)

\* validityPeriod.trim().toLowerCase().match(/^(\d+)([my])$/)
periodMatches(p) ==
  /\ Len(p) >= 2
  /\ Ch(p, Len(p)) \in {"m", "y"}
  /\ LeadingDigits(p, Len(p)) = Len(p) - 1

calculateExpirationDate(approvalDateStr, validityPeriod) ==
  IF \/ approvalDateStr \in {Undefined, "", "-"}
     \/ validityPeriod \in {Undefined, "", "-"}
     \/ toLowerCase(trim(approvalDateStr)) = "rolling"
  THEN IF approvalDateStr # Undefined /\ toLowerCase(trim(approvalDateStr)) = "rolling"
         THEN "Rolling" ELSE "-"
  ELSE LET approvalDate == parseDate(trim(approvalDateStr))
           p            == toLowerCase(trim(validityPeriod))
           amount       == parseInt(SubSeq(p, 1, Len(p) - 1))
           unit         == Ch(p, Len(p))
           expirationDateValue == IF unit = "y" THEN addYears(approvalDate, amount)
                                                ELSE addMonths(approvalDate, amount)
       IN IF ~isValidDate(approvalDate) THEN "-"
          ELSE IF ~periodMatches(p) THEN "-"
          \* format throws a RangeError, and the catch returns '-'
          ELSE IF ~isValidDate(expirationDateValue) THEN "-"
          ELSE format(expirationDateValue)

-----------------------------------------------------------------------------
(* Objects and Maps.                                                       *)

\* row[name], Undefined when the row has no such column.
Prop(row, name) == IF name \in DOMAIN row THEN row[name] ELSE Undefined

\* v?.trim()
OptTrim(v) == IF v = Undefined THEN Undefined ELSE trim(v)

\* Truthiness of a string or undefined, and a || b.
Truthy(v) == v # Undefined /\ v # ""
OrElse(a, b) == IF Truthy(a) THEN a ELSE b

MapHas(map, k) == \E i \in 1..Len(map) : map[i].key = k
MapGet(map, k) ==
  IF MapHas(map, k) THEN map[CHOOSE i \in 1..Len(map) : map[i].key = k].value
  ELSE Undefined
MapKeys(map) == {map[i].key : i \in 1..Len(map)}

\* array.join(sep)
RECURSIVE Join(_, _)
Join(strs, sep) ==
  IF Len(strs) = 0 THEN ""
  ELSE IF Len(strs) = 1 THEN strs[1]
  ELSE strs[1] \o sep \o Join(Tail(strs), sep)

\* path.basename(p, '.csv'): the last segment of the path without a
\* trailing '.csv'.
RECURSIVE LastSegment(_)
LastSegment(p) ==
  IF p # "" /\ Ch(p, Len(p)) = "/" THEN LastSegment(SubSeq(p, 1, Len(p) - 1))
  ELSE IF \E i \in 1..Len(p) : Ch(p, i) = "/"
    THEN LET i == CHOOSE j \in 1..Len(p) :
                    Ch(p, j) = "/" /\ \A l \in (j + 1)..Len(p) : Ch(p, l) # "/"
         IN SubSeq(p, i + 1, Len(p))
  ELSE p

pathBasename(p) ==
  LET b == LastSegment(p) IN
  IF b = ".csv" THEN ""
  ELSE IF Len(b) > 4 /\ SubSeq(b, Len(b) - 3, Len(b)) = ".csv"
    THEN SubSeq(b, 1, Len(b) - 4)
  ELSE b

\* The number of leading characters of s in [a-zA-Z0-9].
RECURSIVE LeadingAlnum(_)
LeadingAlnum(s) ==
  IF s = "" \/ ~IsAlnum(Head(s)) THEN 0 ELSE 1 + LeadingAlnum(Tail(s))

\* fileName.match(/^([a-zA-Z0-9]+)/)?.[1] ?? ''
getBaseName(filePath) ==
  LET fileName == pathBasename(filePath) IN SubSeq(fileName, 1, LeadingAlnum(fileName))

-----------------------------------------------------------------------------
(* The query engine.                                                       *)

\* dataSources.some(ds => ds.dataMap.has(email))
isInMainSource(appData, email) ==
  \E i \in 1..Len(appData.dataSources) : MapHas(appData.dataSources[i].dataMap, email)

\* The result performExactSearch starts from, and resets an Invalid one to.
InvalidResult(email) ==
  [email |-> email, status |-> "Invalid", organization |-> "-",
   subscriptionDetails |-> "-", deviceLimit |-> 0, approver |-> "-",
   approvalDate |-> "-", expirationDate |-> "-"]

\* The configs of the DataSources whose index has the email, in DataSource
\* order; a DataSource without a config is dropped (filter(Boolean)).
foundInOrgs(email, appData) ==
  LET hit(ds) == MapHas(ds.dataMap, email) /\ ds.baseName \in DOMAIN appData.confData
      found == SelectSeq(appData.dataSources, hit)
  IN [i \in 1..Len(found) |-> appData.confData[found[i].baseName]]

\* A faulty variant that takes every computed expiration, '-' included.
hasExpirationAlways(calculatedExpDate) == TRUE

\* calculatedExpDate && calculatedExpDate !== '-'
hasExpiration(calculatedExpDate) ==
  Truthy(calculatedExpDate) /\ calculatedExpDate # "-"

\* A faulty variant that never looks the hint up.
hintOrganizationRaw(orgFromFile, confData) == orgFromFile

\* conf?.orgName || orgFromFile, for the config of the hint's baseName.
hintOrganization(orgFromFile, confData) ==
  IF getBaseName(orgFromFile) \in DOMAIN confData
    THEN OrElse(confData[getBaseName(orgFromFile)].orgName, orgFromFile)
    ELSE orgFromFile

\* A faulty variant without the '-' default.
approverNoDefault(additionalMatch) == OptTrim(Prop(additionalMatch, "Approver"))

\* additionalMatch['Approver']?.trim() || '-'
approverOf(additionalMatch) ==
  OrElse(OptTrim(Prop(additionalMatch, "Approver")), "-")

\* The steps of performExactSearch on the additional record of the email,
\* once its approval date, its expiration date and its Org hint are known.
applyFields(result, additionalMatch, confData, rawApprovalDate, calculatedExpDate, orgFromFile) ==
  LET baseName == IF Truthy(orgFromFile) THEN getBaseName(orgFromFile) ELSE ""
      r1 == IF /\ result.status = "Invalid"
               /\ hasExpiration(calculatedExpDate)
               /\ baseName \in DOMAIN confData
            THEN [result EXCEPT !.status = "Valid", !.deviceLimit = 2,
                                !.organization = confData[baseName].orgName,
                                !.subscriptionDetails = confData[baseName].subDetails]
            ELSE result
      r2 == IF Truthy(orgFromFile)
            THEN [r1 EXCEPT !.organization = hintOrganization(orgFromFile, confData)]
            ELSE r1
      r3 == [r2 EXCEPT !.approver = approverOf(additionalMatch),
                       !.approvalDate = OrElse(rawApprovalDate, "-")]
  IN IF hasExpiration(calculatedExpDate)
       THEN [r3 EXCEPT !.expirationDate = calculatedExpDate]
       ELSE r3

\* The steps of performExactSearch on the additional record of the email.
applyAdditional(result, additionalMatch, confData) ==
  applyFields(result, additionalMatch, confData,
              OptTrim(Prop(additionalMatch, "rat")),
              calculateExpirationDate(OptTrim(Prop(additionalMatch, "rat")),
                                      OptTrim(Prop(additionalMatch, "pov"))),
              OptTrim(Prop(additionalMatch, "Org")))

\* A faulty variant that leaves an Invalid result as it is.
resetInvalidSkipped(result) == result

\* The last step of performExactSearch: nothing leaks into an Invalid result.
resetInvalid(result) ==
  IF result.status = "Invalid" THEN InvalidResult(result.email) ELSE result

\* A faulty variant that does not count the matches.
deviceLimitAlwaysTwo(n) == 2

\* foundInOrgs.length === 1 ? 2 : (foundInOrgs.length >= 2 ? 4 : 0)
deviceLimitFor(n) == IF n = 1 THEN 2 ELSE IF n >= 2 THEN 4 ELSE 0

\* A faulty variant that joins against the DataSource order.
joinReversed(strs) ==
  Join([i \in 1..Len(strs) |-> strs[Len(strs) + 1 - i]], " & ")

\* foundInOrgs.map(...).join(' & ')
joinOrgs(strs) == Join(strs, " & ")

performExactSearch(email, appData) ==
  LET lowerCaseEmail == toLowerCase(email)
      orgs == foundInOrgs(lowerCaseEmail, appData)
      r0 == InvalidResult(email)
      r1 == IF Len(orgs) > 0
            THEN [r0 EXCEPT !.status = "Valid",
                            !.organization = joinOrgs([i \in 1..Len(orgs) |-> orgs[i].orgName]),
                            !.subscriptionDetails = joinOrgs([i \in 1..Len(orgs) |-> orgs[i].subDetails]),
                            !.deviceLimit = deviceLimitFor(Len(orgs)),
                            !.expirationDate = "Rolling"]
            ELSE r0
      additionalMatch == MapGet(appData.additionalMap, lowerCaseEmail)
      r2 == IF MapHas(appData.additionalMap, lowerCaseEmail)
            THEN applyAdditional(r1, additionalMatch, appData.confData)
            ELSE r1
  IN resetInvalid(r2)

\* A faulty variant that leaves out an expiration equal to today.
isPastDueStrict(expirationDate, today) ==
  expirationDate # today /\ StrLE(expirationDate, today)

\* expirationDate <= today, on the two strings.
isPastDue(expirationDate, today) == StrLE(expirationDate, today)

\* The test of getExpiredAccounts on one entry of additionalMap; the
\* expiration date is computed once, as the const of the loop body is.
isExpiredEntry(appData, entry, today) ==
  \E expirationDate \in {calculateExpirationDate(Prop(entry.value, "rat"),
                                                  Prop(entry.value, "pov"))} :
     /\ Truthy(expirationDate)
     /\ expirationDate # "-"
     /\ expirationDate # "Rolling"
     /\ isPastDue(expirationDate, today)
     /\ isInMainSource(appData, entry.key)

ExpiredAccountInfo(entry) ==
  [email |-> entry.key,
   organization |-> OrElse(Prop(entry.value, "Org"), "Unknown"),
   approver |-> OrElse(Prop(entry.value, "Approver"), "-"),
   expirationDate |-> calculateExpirationDate(Prop(entry.value, "rat"),
                                              Prop(entry.value, "pov"))]

\* The approver filter of getExpiredAccounts: none for a missing or empty
\* filter and for the admin role.
filterByApprover(accounts, approverFilter) ==
  LET same(account) == toLowerCase(account.approver) = toLowerCase(approverFilter)
  IN IF Truthy(approverFilter) /\ toLowerCase(approverFilter) # "admin"
       THEN SelectSeq(accounts, same)
       ELSE accounts

getExpiredAccounts(appData, approverFilter, today) ==
  LET test(entry) == isExpiredEntry(appData, entry, today)
      expired == SelectSeq(appData.additionalMap, test)
      expiredAccounts == [i \in 1..Len(expired) |-> ExpiredAccountInfo(expired[i])]
  IN filterByApprover(expiredAccounts, approverFilter)

-----------------------------------------------------------------------------
(* The bounded universe of datasets the model is checked on.               *)

\* The most DataSources of a dataset.
MaxSources == 2

EmailKeys == {"bob@x.com", "amy@x.com"}

\* What a caller may send as the email of an exact search.
SearchInputs == {"bob@x.com", " Bob@X.com ", "amy@x.com", "zed@x.com"}

\* The approver roles of a session; Undefined is a call without a filter.
Roles == {Undefined, "Admin", "carol", "dave"}

\* The dates format(new Date(), 'yyyyMMdd') may give.
Todays == {"20250101", "20250201"}

OrgAlpha == [orgName |-> "Alpha School", subDetails |-> "All Apps plan"]
OrgBeta  == [orgName |-> "Beta Lab", subDetails |-> "Photo plan"]
OrgGamma == [orgName |-> "Gamma Inc", subDetails |-> "Single App"]
\* The config a file " ,All Apps plan" gives: its orgName trims to nothing.
OrgBlank == [orgName |-> "", subDetails |-> "All Apps plan"]

\* confData of three directories: three org configs; one whose orgName is
\* blank; one whose file name has no leading alphanumeric run (baseName '').
ConfChoices ==
  { ("alpha" :> OrgAlpha) @@ ("beta" :> OrgBeta) @@ ("gamma" :> OrgGamma),
    ("alpha" :> OrgBlank) @@ ("beta" :> OrgBeta),
    ("" :> OrgGamma) @@ ("alpha" :> OrgAlpha) }

MainRow(email) == ("Email" :> email) @@ ("Product Configurations" :> "CC")

\* The indices a main CSV family may give.
DataMaps ==
  { <<[key |-> "bob@x.com", value |-> MainRow("bob@x.com")]>>,
    <<[key |-> "bob@x.com", value |-> MainRow("bob@x.com")],
      [key |-> "amy@x.com", value |-> MainRow("amy@x.com")]>> }

\* The DataSources a build may give for confData: distinct baseNames, each
\* with a config (a main CSV without one is skipped), in any order.
SourcesOf(confData) ==
  LET names == DOMAIN confData \ {""}
      all == UNION { [1..n -> [baseName : names, dataMap : DataMaps]] : n \in 0..MaxSources }
  IN { ds \in all : \A i, j \in 1..Len(ds) : i # j => ds[i].baseName # ds[j].baseName }

AdditionalCols(approver, rat, pov, org) ==
  ("Approver" :> approver) @@ ("rat" :> rat) @@ ("pov" :> pov) @@ ("Org" :> org)

\* The rows of the additional file, without their Email.
AdditionalRows ==
  { AdditionalCols("carol", "20240101", "12m", ""),
    AdditionalCols("Carol", "20240131", "1M", "alpha"),
    AdditionalCols("", "rolling", "12m", "beta.csv"),
    AdditionalCols("dave", "20240115", "1y", "Delta Org"),
    AdditionalCols("dave", "", "12m", ""),
    AdditionalCols("carol", "2024-01-01", "1y", "alpha"),
    AdditionalCols("", "Rolling", "-", "") }

\* The row without its Org column: the column is optional in the file.
WithoutOrg(row) == [h \in DOMAIN row \ {"Org"} |-> row[h]]

\* additionalMap: at most one row per email; either every row has the Org
\* column or (a file without that header) none has.
AdditionalMaps ==
  LET entries == { [key |-> e, value |-> ("Email" :> e) @@ r] : e \in EmailKeys, r \in AdditionalRows }
      all == UNION { [1..n -> entries] : n \in 0..Cardinality(EmailKeys) }
      withOrg == { m \in all : \A i, j \in 1..Len(m) : i < j => StrLE(m[j].key, m[i].key) /\ m[i].key # m[j].key }
      noHint == { m \in withOrg : Len(m) > 0 /\ \A i \in 1..Len(m) : m[i].value["Org"] = "" }
  IN withOrg \cup { [i \in 1..Len(m) |-> [key |-> m[i].key, value |-> WithoutOrg(m[i].value)]] : m \in noHint }

AppDatas ==
  UNION { [dataSources : SourcesOf(confData), additionalMap : AdditionalMaps,
           paymentMap : {<<>>}, confData : {confData}] : confData \in ConfChoices }

-----------------------------------------------------------------------------
(* The state.                                                              *)

\* The most concurrent callers of getData, and the most builds started.
MaxCallers == 3
MaxBuilds == 2

Callers == 1..MaxCallers
BuildIds == 1..MaxBuilds

\* cachedData = null, and dataPromise = null.
NullData == [null |-> TRUE]
NoPromise == 0

\* The dataset of an unreadable or empty directory, and the dataset of a
\* directory with alpha.conf, alpha.csv and additional.csv.
EmptyAppData ==
  [dataSources |-> <<>>, additionalMap |-> <<>>, paymentMap |-> <<>>, confData |-> <<>>]
SampleAppData ==
  [dataSources |-> <<[baseName |-> "alpha",
                      dataMap |-> <<[key |-> "bob@x.com", value |-> MainRow("bob@x.com")]>>]>>,
   additionalMap |-> <<[key |-> "bob@x.com",
                        value |-> ("Email" :> "bob@x.com")
                                  @@ AdditionalCols("carol", "20240101", "12m", "")]>>,
   paymentMap |-> <<>>,
   confData |-> ("alpha" :> OrgAlpha)]

\* What loadAndProcessData may resolve with.
BuildOutcomes == {EmptyAppData, SampleAppData}

VARIABLES
  cachedData,   \* the module-level cachedData: NullData or an AppData
  dataPromise,  \* the module-level dataPromise: NoPromise or the id of a build
  build,        \* per build: the phase of its promise chain, and its data
  started,      \* the number of executions of loadAndProcessData so far
  pc,           \* per caller: "idle", "awaiting", "done" or "failed"
  handle,       \* per caller: the promise getData returned to it
  got,          \* per caller: the AppData its await produced
  op,           \* the last query: "none", "exact" or "expired"
  arg,          \* its input: the raw email, or the approver filter
  today,        \* the date the last query read from the clock
  result,       \* what the last query returned
  apiKey,       \* the module-level apiKey of /api/v1/query: Undefined or the key
  keyFile       \* the content of apipwd.conf: Undefined when it cannot be read

authVars == <<apiKey, keyFile>>
cacheVars == <<cachedData, dataPromise, build, started, pc, handle, got, apiKey, keyFile>>
queryVars == <<op, arg, today, result>>
vars == <<cachedData, dataPromise, build, started, pc, handle, got, op, arg, today, result,
          apiKey, keyFile>>

NoBuild == [phase |-> "none", data |-> NullData]
NoHandle == [kind |-> "none"]
ResolvedHandle(data) == [kind |-> "resolved", data |-> data]
BuildHandle(id) == [kind |-> "build", id |-> id]

-----------------------------------------------------------------------------
(* The cache: getData and the promise chain of a build.                    *)

\* if (cachedData)
isCached == cachedData # NullData

\* A faulty variant that never sees the pending build.
hasPendingBuildIgnored == FALSE

\* if (dataPromise)
hasPendingBuild == dataPromise # NoPromise

\* getData(), called by c, which then awaits the promise it returns.  The
\* call runs to its return without interleaving: it is synchronous.
GetData(c) ==
  /\ pc[c] = "idle"
  /\ pc' = [pc EXCEPT ![c] = "awaiting"]
  /\ IF isCached
       THEN /\ handle' = [handle EXCEPT ![c] = ResolvedHandle(cachedData)]
            /\ UNCHANGED <<dataPromise, build, started>>
     ELSE IF hasPendingBuild
       THEN /\ handle' = [handle EXCEPT ![c] = BuildHandle(dataPromise)]
            /\ UNCHANGED <<dataPromise, build, started>>
     ELSE /\ started < MaxBuilds
          /\ started' = started + 1
          /\ build' = [build EXCEPT ![started + 1] = [phase |-> "running", data |-> NullData]]
          /\ dataPromise' = started + 1
          /\ handle' = [handle EXCEPT ![c] = BuildHandle(started + 1)]
  /\ UNCHANGED <<cachedData, got>>
  /\ UNCHANGED <<queryVars, authVars>>

\* loadAndProcessData returns: its promise is fulfilled with the AppData.
LoadSucceeds(id) ==
  \E data \in BuildOutcomes :
    /\ build[id].phase = "running"
    /\ build' = [build EXCEPT ![id] = [phase |-> "loaded", data |-> data]]
    /\ UNCHANGED <<cachedData, dataPromise, started, pc, handle, got>>
    /\ UNCHANGED <<queryVars, authVars>>

\* loadAndProcessData throws: its promise is rejected.
LoadFails(id) ==
  /\ build[id].phase = "running"
  /\ build' = [build EXCEPT ![id] = [phase |-> "failed", data |-> NullData]]
  /\ UNCHANGED <<cachedData, dataPromise, started, pc, handle, got>>
  /\ UNCHANGED <<queryVars, authVars>>

\* A faulty variant that forgets the data.
memoizedNothing(data) == NullData

\* What the then-callback leaves in cachedData.
memoized(data) == data

\* .then(data => { cachedData = data; return data; }): the promise getData
\* returned is fulfilled with the data.
ThenCallback(id) ==
  /\ build[id].phase = "loaded"
  /\ cachedData' = memoized(build[id].data)
  /\ build' = [build EXCEPT ![id].phase = "fulfilled"]
  /\ UNCHANGED <<dataPromise, started, pc, handle, got>>
  /\ UNCHANGED <<queryVars, authVars>>

\* A faulty variant that keeps the rejected promise.
clearedPromiseKept(current) == current

\* What the catch-callback leaves in dataPromise.
clearedPromise(current) == NoPromise

\* .catch(err => { dataPromise = null; throw err; }): the promise getData
\* returned is rejected with the error.
CatchCallback(id) ==
  /\ build[id].phase = "failed"
  /\ dataPromise' = clearedPromise(dataPromise)
  /\ build' = [build EXCEPT ![id].phase = "rejected"]
  /\ UNCHANGED <<cachedData, started, pc, handle, got>>
  /\ UNCHANGED <<queryVars, authVars>>

\* Whether the promise is settled, and how.
isFulfilled(h) ==
  h.kind = "resolved" \/ (h.kind = "build" /\ build[h.id].phase = "fulfilled")
isRejected(h) == h.kind = "build" /\ build[h.id].phase = "rejected"
valueOf(h) == IF h.kind = "resolved" THEN h.data ELSE build[h.id].data

\* The caller's await resumes: with the AppData, or with the error thrown.
Resume(c) ==
  /\ pc[c] = "awaiting"
  /\ \/ /\ isFulfilled(handle[c])
        /\ pc' = [pc EXCEPT ![c] = "done"]
        /\ got' = [got EXCEPT ![c] = valueOf(handle[c])]
     \/ /\ isRejected(handle[c])
        /\ pc' = [pc EXCEPT ![c] = "failed"]
        /\ got' = got
  /\ UNCHANGED <<cachedData, dataPromise, build, started, handle>>
  /\ UNCHANGED <<queryVars, authVars>>

\* The caller's request ends; it may make another.
Finish(c) ==
  /\ pc[c] \in {"done", "failed"}
  /\ pc' = [pc EXCEPT ![c] = "idle"]
  /\ handle' = [handle EXCEPT ![c] = NoHandle]
  /\ got' = [got EXCEPT ![c] = NullData]
  /\ UNCHANGED <<cachedData, dataPromise, build, started>>
  /\ UNCHANGED <<queryVars, authVars>>

InitCache ==
  /\ cachedData = NullData
  /\ dataPromise = NoPromise
  /\ build = [id \in BuildIds |-> NoBuild]
  /\ started = 0
  /\ pc = [c \in Callers |-> "idle"]
  /\ handle = [c \in Callers |-> NoHandle]
  /\ got = [c \in Callers |-> NullData]
  /\ op = "none"
  /\ arg = Undefined
  /\ today = Undefined
  /\ result = Undefined
  /\ apiKey = Undefined
  /\ keyFile = Undefined

NextCache ==
  \/ \E c \in Callers : GetData(c) \/ Resume(c) \/ Finish(c)
  \/ \E id \in BuildIds : LoadSucceeds(id) \/ LoadFails(id)
                            \/ ThenCallback(id) \/ CatchCallback(id)

SpecCache == InitCache /\ [][NextCache]_vars

-----------------------------------------------------------------------------
(* The queries, on a loaded cache.                                         *)

\* The first build succeeded with a dataset of the universe; the queries
\* read cachedData, which is what await getData() gives them.
Init ==
  /\ cachedData \in AppDatas
  /\ dataPromise = 1
  /\ build = [id \in BuildIds |-> IF id = 1 THEN [phase |-> "fulfilled", data |-> cachedData]
                                              ELSE NoBuild]
  /\ started = 1
  /\ pc = [c \in Callers |-> "idle"]
  /\ handle = [c \in Callers |-> NoHandle]
  /\ got = [c \in Callers |-> NullData]
  /\ op = "none"
  /\ arg = Undefined
  /\ today = Undefined
  /\ result = Undefined
  /\ apiKey = Undefined
  /\ keyFile = Undefined

\* POST with type 'exact': the email is trimmed and lower-cased.
ExactSearch ==
  \E searchEmail \in SearchInputs :
    /\ op = "none"
    /\ op' = "exact"
    /\ arg' = searchEmail
    /\ result' = performExactSearch(toLowerCase(trim(searchEmail)), cachedData)
    /\ today' = today
    /\ UNCHANGED cacheVars

\* GET with type 'expired', for the session's role.
Expired ==
  \E approverRole \in Roles, now \in Todays :
    /\ op = "none"
    /\ op' = "expired"
    /\ arg' = approverRole
    /\ today' = now
    /\ result' = getExpiredAccounts(cachedData, approverRole, now)
    /\ UNCHANGED cacheVars

\* The response is sent: the server waits for the next request.
Respond ==
  /\ op # "none"
  /\ op' = "none"
  /\ arg' = Undefined
  /\ today' = Undefined
  /\ result' = Undefined
  /\ UNCHANGED cacheVars

Next == ExactSearch \/ Expired \/ Respond

Spec == Init /\ [][Next]_vars

-----------------------------------------------------------------------------
(* Properties of the cache, checked under SpecCache.                       *)

\* The builds whose promise chain has not settled yet.
PendingBuilds == {id \in BuildIds : build[id].phase \in {"running", "loaded", "failed"}}

\* The executions of loadAndProcessData in progress.
RunningLoads == {id \in BuildIds : build[id].phase = "running"}

\* Caller c's getData call is this step.
CallsGetData(c) == pc[c] = "idle" /\ pc'[c] = "awaiting"

\* A getData call made while nothing is cached and a build is pending
\* returns that build's promise and starts nothing.
SharesPendingBuild ==
  \A c \in Callers :
    (CallsGetData(c) /\ cachedData = NullData /\ PendingBuilds # {}) =>
      /\ \E id \in PendingBuilds : handle'[c] = BuildHandle(id)
      /\ started' = started
      /\ build' = build

\* C1: at most one execution of loadAndProcessData is in progress at any
\* moment, and a getData call made while no AppData is cached and a build is
\* pending returns the pending build's promise and starts no new build,
\* whatever the number and the interleaving of the callers.
C1_SingleFlight ==
  /\ [](Cardinality(RunningLoads) <= 1)
  /\ [][SharesPendingBuild]_vars

\* Every caller awaits the one running build.
C1_Witness ==
  /\ started = 1
  /\ build[1].phase = "running"
  /\ \A c \in Callers : pc[c] = "awaiting" /\ handle[c] = BuildHandle(1)

\* While a build has succeeded: the cache holds its data, keeps it, no load
\* starts, and a getData call returns a promise resolved with the data.
LoadedStays ==
  \A id \in BuildIds :
    build[id].phase = "fulfilled" =>
      /\ build'[id].phase = "fulfilled"
      /\ cachedData' = cachedData
      /\ started' = started
      /\ \A c \in Callers :
           CallsGetData(c) => handle'[c] = ResolvedHandle(build[id].data)

\* C2: once a build has succeeded the cache stays loaded for good: it holds
\* that build's AppData, every later getData call resolves to that same
\* AppData, and no other load is ever started.
C2_LoadedIsTerminal ==
  /\ [](\A id \in BuildIds : build[id].phase = "fulfilled" => cachedData = build[id].data)
  /\ [](\A c \in Callers : pc[c] = "done" => got[c] = cachedData)
  /\ [][LoadedStays]_vars

\* After a failed first build the second succeeded, and a call made after
\* that got the memoized data.
C2_Witness ==
  /\ started = 2
  /\ build[2].phase = "fulfilled"
  /\ \E c \in Callers :
       pc[c] = "done" /\ handle[c] = ResolvedHandle(SampleAppData) /\ got[c] = SampleAppData

\* The last build started has failed and its failure has been handled.
LastBuildRejected == started > 0 /\ build[started].phase = "rejected"

\* After a failure: an awaiting caller resumes with the error, and the next
\* getData call starts a new build and returns its promise.
RetriesAfterFailure ==
  \A c \in Callers :
    /\ (pc[c] = "awaiting" /\ isRejected(handle[c]) /\ pc'[c] # "awaiting") =>
         (pc'[c] = "failed" /\ got'[c] = NullData)
    /\ (CallsGetData(c) /\ LastBuildRejected) =>
         /\ started' = started + 1
         /\ build'[started + 1].phase = "running"
         /\ dataPromise' = started + 1
         /\ handle'[c] = BuildHandle(started + 1)

\* C3: when a build fails, the callers awaiting it get the failure, no AppData
\* is cached, the pending-build marker is cleared (the cache is empty again),
\* and the next getData call starts a fresh build.
C3_FailureAllowsRetry ==
  /\ [](LastBuildRejected => (cachedData = NullData /\ dataPromise = NoPromise))
  /\ [](\A c \in Callers : pc[c] = "failed" => (isRejected(handle[c]) /\ got[c] = NullData))
  /\ [][RetriesAfterFailure]_vars

\* Two callers got the failure of the first build; the third started the
\* second build.
C3_Witness ==
  /\ build[1].phase = "rejected"
  /\ build[2].phase = "running"
  /\ \E c \in Callers :
       /\ handle[c] = BuildHandle(2)
       /\ \A d \in Callers \ {c} : pc[d] = "failed" /\ handle[d] = BuildHandle(1)

-----------------------------------------------------------------------------
(* Properties of the queries, checked under Spec.  They describe the       *)
(* dataset in their own terms: which DataSources hold the email, what its  *)
(* additional record says.                                                 *)

\* The DataSources whose index has the email, in DataSource order.
SourcesHolding(e) ==
  SelectSeq(cachedData.dataSources, LAMBDA ds : e \in MapKeys(ds.dataMap))

\* The orgNames, and the subscription details, of their configs.
OrgNamesOf(e) ==
  [i \in 1..Len(SourcesHolding(e)) |->
     cachedData.confData[SourcesHolding(e)[i].baseName].orgName]
DetailsOf(e) ==
  [i \in 1..Len(SourcesHolding(e)) |->
     cachedData.confData[SourcesHolding(e)[i].baseName].subDetails]

\* The additional record of the email: whether there is one, its columns
\* ("" for an empty or a missing one), and the expiration computed from it.
HasRecord(e) == e \in MapKeys(cachedData.additionalMap)
ColumnOf(e, name) ==
  LET v == Prop(MapGet(cachedData.additionalMap, e), name)
  IN IF v = Undefined THEN "" ELSE v
ExpirationOf(e) == calculateExpirationDate(ColumnOf(e, "rat"), ColumnOf(e, "pov"))
IsRealDate(x) == x \notin {"-", "Rolling"}
DashIfEmpty(v) == IF v = "" THEN "-" ELSE v

\* The Org hint resolves: it is not empty and the leading alphanumeric run
\* of its file name is the baseName of an OrgConfig.
HintResolves(e) ==
  ColumnOf(e, "Org") # "" /\ getBaseName(ColumnOf(e, "Org")) \in DOMAIN cachedData.confData
HintConfig(e) == cachedData.confData[getBaseName(ColumnOf(e, "Org"))]

\* The baseName looked up for the hint: '' for an empty or missing hint.
HintBaseName(e) ==
  IF ColumnOf(e, "Org") = "" THEN "" ELSE getBaseName(ColumnOf(e, "Org"))

\* The organization a non-empty hint puts in the result: the orgName of its
\* config when there is one and it is not empty, the hint itself otherwise.
HintOverride(e) ==
  IF HintResolves(e) /\ HintConfig(e).orgName # "" THEN HintConfig(e).orgName
  ELSE ColumnOf(e, "Org")

\* The ordinary dataset: every OrgConfig has a baseName and an orgName.
OrdinaryConfigs ==
  \A b \in DOMAIN cachedData.confData : b # "" /\ cachedData.confData[b].orgName # ""

\* C4: exact search on an email that is a key of n >= 1 DataSources and has
\* no additional record is Valid with deviceLimit 2 for n = 1 and 4 for
\* n >= 2, organization and subscriptionDetails the ' & '-join of the matched
\* configs in DataSource order, expirationDate 'Rolling', approver and
\* approvalDate '-'.
C4_MainSourcesOnly ==
  op = "exact" =>
    LET e == result.email
        n == Len(SourcesHolding(e))
    IN (n >= 1 /\ ~HasRecord(e)) =>
         /\ result.status = "Valid"
         /\ result.deviceLimit = (IF n = 1 THEN 2 ELSE 4)
         /\ result.organization = Join(OrgNamesOf(e), " & ")
         /\ result.subscriptionDetails = Join(DetailsOf(e), " & ")
         /\ result.expirationDate = "Rolling"
         /\ result.approver = "-"
         /\ result.approvalDate = "-"

\* The email, sent in another letter case, is in alpha and beta only.
C4_Witness ==
  /\ op = "exact"
  /\ arg = " Bob@X.com "
  /\ ~HasRecord("bob@x.com")
  /\ Len(SourcesHolding("bob@x.com")) = 2
  /\ result.deviceLimit = 4
  /\ result.organization = "Alpha School & Beta Lab"
  /\ result.subscriptionDetails = "All Apps plan & Photo plan"

\* C5: an Invalid exact-search result has organization, subscriptionDetails,
\* approver, approvalDate and expirationDate '-' and deviceLimit 0, and an
\* email in no DataSource and without an additional record is Invalid.
C5_InvalidCarriesNothing ==
  op = "exact" =>
    LET e == result.email IN
    /\ (Len(SourcesHolding(e)) = 0 /\ ~HasRecord(e)) => result.status = "Invalid"
    /\ result.status = "Invalid" =>
         /\ result.organization = "-"
         /\ result.subscriptionDetails = "-"
         /\ result.approver = "-"
         /\ result.approvalDate = "-"
         /\ result.expirationDate = "-"
         /\ result.deviceLimit = 0

\* An email with only an additional record, which names an approver, an
\* approval date and an organization, is Invalid.
C5_Witness ==
  /\ op = "exact"
  /\ result.status = "Invalid"
  /\ Len(SourcesHolding(result.email)) = 0
  /\ HasRecord(result.email)
  /\ ColumnOf(result.email, "Approver") = "dave"
  /\ ColumnOf(result.email, "rat") = "20240115"
  /\ ColumnOf(result.email, "Org") = "Delta Org"

\* C6 as stated, on the ordinary datasets: an email in no DataSource with an
\* additional record is Valid (deviceLimit 2, organization and
\* subscriptionDetails of the resolved config) exactly when its computed
\* expiration is a real date, neither '-' nor 'Rolling', and its Org hint
\* resolves to an OrgConfig.
C6_AsStated ==
  (op = "exact" /\ OrdinaryConfigs) =>
    LET e == result.email IN
    (Len(SourcesHolding(e)) = 0 /\ HasRecord(e)) =>
      /\ result.status = "Valid" <=> (IsRealDate(ExpirationOf(e)) /\ HintResolves(e))
      /\ (result.status = "Valid" /\ HintResolves(e)) =>
           /\ result.deviceLimit = 2
           /\ result.organization = HintConfig(e).orgName
           /\ result.subscriptionDetails = HintConfig(e).subDetails

\* C6, amended: such an email is Valid exactly when its computed expiration
\* is not '-' (a real date or 'Rolling') and the baseName of its Org hint
\* ('' for an empty or missing hint) is a key of confData; then deviceLimit
\* is 2, subscriptionDetails is that config's, and organization is that
\* config's orgName, or the hint itself when the hint is not empty and the
\* orgName is.
C6_AdditionalOnly ==
  op = "exact" =>
    LET e == result.email
        known == HintBaseName(e) \in DOMAIN cachedData.confData
    IN (Len(SourcesHolding(e)) = 0 /\ HasRecord(e)) =>
         /\ result.status = "Valid" <=> (ExpirationOf(e) # "-" /\ known)
         /\ result.status = "Valid" =>
              /\ result.deviceLimit = 2
              /\ result.subscriptionDetails = cachedData.confData[HintBaseName(e)].subDetails
              /\ result.organization =
                   IF ColumnOf(e, "Org") # "" THEN HintOverride(e)
                   ELSE cachedData.confData[HintBaseName(e)].orgName

\* An email with only an additional record whose approval date is 'rolling'
\* and whose hint names beta is Valid.
C6_Witness ==
  /\ op = "exact"
  /\ Len(SourcesHolding(result.email)) = 0
  /\ HasRecord(result.email)
  /\ ExpirationOf(result.email) = "Rolling"
  /\ ColumnOf(result.email, "Org") = "beta.csv"
  /\ result.status = "Valid"
  /\ result.deviceLimit = 2
  /\ result.organization = "Beta Lab"
  /\ result.expirationDate = "Rolling"

\* C7: for an email in at least one DataSource that has an additional record,
\* exact search is Valid with the record's Approver and raw rat ('-' for an
\* empty one) and the computed expiration when that is a real date, 'Rolling'
\* otherwise; one DataSource, rat 20240101, pov 12m and Approver carol give
\* deviceLimit 2, 'carol', '20240101' and '20250101'.
C7_MainAndAdditional ==
  op = "exact" =>
    LET e == result.email
        n == Len(SourcesHolding(e))
    IN (n >= 1 /\ HasRecord(e)) =>
         /\ result.status = "Valid"
         /\ result.approver = DashIfEmpty(ColumnOf(e, "Approver"))
         /\ result.approvalDate = DashIfEmpty(ColumnOf(e, "rat"))
         /\ result.expirationDate =
              (IF IsRealDate(ExpirationOf(e)) THEN ExpirationOf(e) ELSE "Rolling")
         /\ (/\ n = 1
             /\ ColumnOf(e, "rat") = "20240101"
             /\ ColumnOf(e, "pov") = "12m"
             /\ ColumnOf(e, "Approver") = "carol") =>
              /\ result.deviceLimit = 2
              /\ result.approver = "carol"
              /\ result.approvalDate = "20240101"
              /\ result.expirationDate = "20250101"

\* The scenario: bob is in alpha only, approved by carol on 20240101 for 12m.
C7_Witness ==
  /\ op = "exact"
  /\ result.email = "bob@x.com"
  /\ Len(SourcesHolding("bob@x.com")) = 1
  /\ SourcesHolding("bob@x.com")[1].baseName = "alpha"
  /\ ColumnOf("bob@x.com", "rat") = "20240101"
  /\ ColumnOf("bob@x.com", "pov") = "12m"
  /\ ColumnOf("bob@x.com", "Approver") = "carol"
  /\ result.status = "Valid"
  /\ result.organization = "Alpha School"
  /\ result.subscriptionDetails = "All Apps plan"
  /\ result.expirationDate = "20250101"

\* C8 as stated, on the ordinary datasets: for an email in exactly two
\* DataSources, whatever else the dataset holds, deviceLimit is 4 and
\* organization is the two orgNames joined with ' & ' in DataSource order.
C8_AsStated ==
  (op = "exact" /\ OrdinaryConfigs) =>
    (Len(SourcesHolding(result.email)) = 2 =>
       /\ result.deviceLimit = 4
       /\ result.organization = Join(OrgNamesOf(result.email), " & "))

\* C8, amended: for such an email deviceLimit is 4, and organization is the
\* joined pair unless the email's additional record has a non-empty Org hint;
\* with such a hint organization is the hint's override.
C8_TwoSources ==
  op = "exact" =>
    LET e == result.email IN
    Len(SourcesHolding(e)) = 2 =>
      /\ result.deviceLimit = 4
      /\ result.organization =
           IF HasRecord(e) /\ ColumnOf(e, "Org") # "" THEN HintOverride(e)
           ELSE Join(OrgNamesOf(e), " & ")

\* The email is in beta and alpha, in that order, and has an additional
\* record without a hint.
C8_Witness ==
  /\ op = "exact"
  /\ Len(SourcesHolding(result.email)) = 2
  /\ HasRecord(result.email)
  /\ ColumnOf(result.email, "Org") = ""
  /\ result.deviceLimit = 4
  /\ result.organization = "Beta Lab & Alpha School"

\* C9 as stated, for the Valid results on the ordinary datasets: with a
\* non-empty Org hint, organization is the orgName of the config the hint
\* resolves to, and when it resolves to none organization is left as computed
\* from the matched DataSources.
C9_AsStated ==
  (op = "exact" /\ OrdinaryConfigs) =>
    LET e == result.email IN
    (HasRecord(e) /\ ColumnOf(e, "Org") # "" /\ result.status = "Valid") =>
      result.organization =
        IF HintResolves(e) THEN HintConfig(e).orgName ELSE Join(OrgNamesOf(e), " & ")

\* C9, amended: with a non-empty Org hint, a Valid result's organization is
\* the orgName of the config the hint resolves to when there is one and its
\* orgName is not empty, also when the DataSource matches had made the
\* account Valid; otherwise it is the hint's own text.
C9_HintOverridesOrganization ==
  op = "exact" =>
    LET e == result.email IN
    (HasRecord(e) /\ ColumnOf(e, "Org") # "" /\ result.status = "Valid") =>
      result.organization = HintOverride(e)

\* The email is in alpha and beta and its hint names alpha: the override
\* replaces the joined string.
C9_Witness ==
  /\ op = "exact"
  /\ Len(SourcesHolding(result.email)) = 2
  /\ HasRecord(result.email)
  /\ ColumnOf(result.email, "Org") = "alpha"
  /\ Join(OrgNamesOf(result.email), " & ") = "Alpha School & Beta Lab"
  /\ result.organization = "Alpha School"

\* The emails of the listing.
ListedEmails == {result[i].email : i \in 1..Len(result)}

\* No approver filter applies: none given, or the admin role.
Unfiltered(r) == r \in {Undefined, ""} \/ toLowerCase(r) = "admin"

\* C10: the expired-accounts listing for role r holds exactly the additional
\* records whose computed expiration is a real date that is <= today (today
\* included), whose email is a key of some DataSource and, unless r is the
\* admin role or no filter is given, whose approver ('-' for an empty one)
\* equals r without regard to case; each once.
C10_ExpiredListing ==
  op = "expired" =>
    /\ ListedEmails =
         { e \in MapKeys(cachedData.additionalMap) :
             /\ IsRealDate(ExpirationOf(e))
             /\ StrLE(ExpirationOf(e), today)
             /\ Len(SourcesHolding(e)) >= 1
             /\ \/ Unfiltered(arg)
                \/ toLowerCase(DashIfEmpty(ColumnOf(e, "Approver"))) = toLowerCase(arg) }
    /\ Cardinality(ListedEmails) = Len(result)

\* carol's listing on 20250101 holds bob, who expires that day and whose
\* approver is written Carol or carol, and not amy, approved by dave.
C10_Witness ==
  /\ op = "expired"
  /\ arg = "carol"
  /\ today = "20250101"
  /\ HasRecord("bob@x.com")
  /\ ExpirationOf("bob@x.com") = "20250101"
  /\ ListedEmails = {"bob@x.com"}
  /\ HasRecord("amy@x.com")
  /\ ColumnOf("amy@x.com", "Approver") = "dave"
  /\ ExpirationOf("amy@x.com") = "20250115"
  /\ Len(SourcesHolding("amy@x.com")) >= 1

-----------------------------------------------------------------------------
(* Quick audit and the proxy dashboard.                                    *)

\* parseInt(s, 10): an optional sign and the leading decimal digits; NaN
\* when there is none.
NaN == [nan |-> TRUE, n |-> 0]
parseIntPrefix(s) ==
  LET t == IF s = Undefined THEN "" ELSE trimStart(s)
      signed == t # "" /\ Head(t) \in {"+", "-"}
      body == IF signed THEN Tail(t) ELSE t
      k == LeadingDigits(body, Len(body))
      v == parseInt(SubSeq(body, 1, k))
  IN IF k = 0 THEN NaN
     ELSE [nan |-> FALSE, n |-> IF signed /\ Head(t) = "-" THEN 0 - v ELSE v]

NOT_PAID_DATE_THRESHOLD == 20250724

\* ratStr ? parseInt(ratStr, 10) : 0, and the test !ratNum || ratNum < threshold.
belowThreshold(ratStr) ==
  LET ratNum == IF Truthy(ratStr) THEN parseIntPrefix(ratStr) ELSE [nan |-> FALSE, n |-> 0]
  IN ratNum.nan \/ ratNum.n = 0 \/ ratNum.n < NOT_PAID_DATE_THRESHOLD

\* A faulty variant that finds no payment at all.
hasPaymentNever(paymentMap, email) == FALSE

\* paymentMap.has(email)
hasPayment(paymentMap, email) == MapHas(paymentMap, email)

\* The test of the 'Not Paid' pass on one entry of additionalMap.
isNotPaid(appData, entry) ==
  /\ ~belowThreshold(OptTrim(Prop(entry.value, "rat")))
  /\ isInMainSource(appData, entry.key)
  /\ ~hasPayment(appData.paymentMap, entry.key)

NotPaidInfo(entry) ==
  [email |-> entry.key,
   rat |-> OrElse(OptTrim(Prop(entry.value, "rat")), "-"),
   approver |-> OrElse(OptTrim(Prop(entry.value, "Approver")), "-"),
   pov |-> OrElse(OptTrim(Prop(entry.value, "pov")), "-"),
   reason |-> "Not Paid"]

NotRegisteredInfo(email) ==
  [email |-> email, rat |-> "-", approver |-> "-", pov |-> "-", reason |-> "Not Registered"]

\* A faulty variant that excludes no DataSource.
isExcludedNever(baseName) == FALSE

\* excludedBaseNames.includes(dataSource.baseName)
isExcluded(baseName) == baseName \in {"blueskyy", "parvis"}

\* The keys the 'Not Registered' pass visits, in its order: DataSource by
\* DataSource, the excluded ones skipped.
RECURSIVE visitedKeys(_)
visitedKeys(dataSources) ==
  IF Len(dataSources) = 0 THEN <<>>
  ELSE LET ds == Head(dataSources)
           keys == [i \in 1..Len(ds.dataMap) |-> ds.dataMap[i].key]
       IN (IF isExcluded(ds.baseName) THEN <<>> ELSE keys) \o visitedKeys(Tail(dataSources))

\* A faulty variant that forgets what was added.
alreadyAddedNever(addedEmails, email) == FALSE

\* addedEmails.has(email)
alreadyAdded(addedEmails, email) == email \in addedEmails

\* A faulty variant that takes no email for registered.
isRegisteredNever(additionalMap, email) == FALSE

\* appData.additionalMap.has(email)
isRegistered(additionalMap, email) == MapHas(additionalMap, email)

\* The 'Not Registered' pass over the visited keys, from the accounts and
\* the addedEmails the 'Not Paid' pass left.
RECURSIVE notRegisteredPass(_, _, _, _)
notRegisteredPass(keys, additionalMap, auditAccounts, addedEmails) ==
  IF Len(keys) = 0 THEN auditAccounts
  ELSE LET email == Head(keys) IN
       IF alreadyAdded(addedEmails, email) \/ isRegistered(additionalMap, email)
         THEN notRegisteredPass(Tail(keys), additionalMap, auditAccounts, addedEmails)
         ELSE notRegisteredPass(Tail(keys), additionalMap,
                                Append(auditAccounts, NotRegisteredInfo(email)),
                                addedEmails \cup {email})

getQuickAuditAccounts(appData) ==
  LET test(entry) == isNotPaid(appData, entry)
      unpaid == SelectSeq(appData.additionalMap, test)
      notPaid == [i \in 1..Len(unpaid) |-> NotPaidInfo(unpaid[i])]
      addedEmails == {unpaid[i].key : i \in 1..Len(unpaid)}
  IN notRegisteredPass(visitedKeys(appData.dataSources), appData.additionalMap,
                       notPaid, addedEmails)

\* A faulty variant that filters the rows for the admin role too.
proxyRowsFiltered(appData, approverFilter) ==
  LET allAccounts == [i \in 1..Len(appData.additionalMap) |-> appData.additionalMap[i].value]
      same(account) ==
        toLowerCase(OrElse(Prop(account, "Approver"), "")) = toLowerCase(approverFilter)
  IN SelectSeq(allAccounts, same)

\* The approver filter of getProxyData on the rows of additionalMap.
proxyRows(appData, approverFilter) ==
  LET allAccounts == [i \in 1..Len(appData.additionalMap) |-> appData.additionalMap[i].value]
      same(account) ==
        toLowerCase(OrElse(Prop(account, "Approver"), "")) = toLowerCase(approverFilter)
  IN IF toLowerCase(approverFilter) # "admin" THEN SelectSeq(allAccounts, same)
     ELSE allAccounts

\* A faulty variant that puts the quick-audit reason first.
proxyTagAuditFirst(expired, audited, reason) ==
  IF audited THEN reason ELSE IF expired THEN "Authorization Expired" ELSE ""

\* The tag of a proxy record: the expired check first, the quick-audit
\* reason second.
proxyTag(expired, audited, reason) ==
  IF expired THEN "Authorization Expired" ELSE IF audited THEN reason ELSE ""

\* A faulty variant that drops nothing.
isDroppedNever(searchResult) == FALSE

\* searchResult.status === 'Invalid'
isDropped(searchResult) == searchResult.status = "Invalid"

\* The record of one row once its search result and its expiration date
\* are known: dropped when the search says Invalid, tagged otherwise.
proxyTagged(appData, email, searchResult, expirationDate, qaResults, now) ==
  LET expired == /\ Truthy(expirationDate)
                 /\ expirationDate # "-"
                 /\ expirationDate # "Rolling"
                 /\ isPastDue(expirationDate, now)
                 /\ isInMainSource(appData, email)
      audited == \E i \in 1..Len(qaResults) : qaResults[i].email = email
      \* new Map(pairs) keeps the last pair of a key
      reason == IF audited
                THEN qaResults[CHOOSE i \in 1..Len(qaResults) :
                                 /\ qaResults[i].email = email
                                 /\ \A j \in (i + 1)..Len(qaResults) : qaResults[j].email # email].reason
                ELSE ""
  IN IF isDropped(searchResult) THEN [dropped |-> TRUE]
     ELSE [dropped |-> FALSE,
           record |-> [f \in (DOMAIN searchResult) \cup {"tag"} |->
                         IF f = "tag" THEN proxyTag(expired, audited, reason)
                         ELSE searchResult[f]]]

\* The record of the row of one email.
proxyRecordOf(appData, email, row, qaResults, now) ==
  IF email = "" THEN [dropped |-> TRUE]
  ELSE proxyTagged(appData, email, performExactSearch(email, appData),
                   calculateExpirationDate(Prop(row, "rat"), Prop(row, "pov")),
                   qaResults, now)

\* What getProxyData maps one row to: a dropped mark, or the record.
proxyRecord(appData, row, qaResults, now) ==
  proxyRecordOf(appData, toLowerCase(OrElse(Prop(row, "Email"), "")), row, qaResults, now)

\* The records kept, in the order of the rows.
keptRecords(mapped) ==
  LET keep(m) == ~m.dropped
  IN [i \in 1..Len(SelectSeq(mapped, keep)) |-> SelectSeq(mapped, keep)[i].record]

\* rows.map(...).filter(record => record !== null)
mapRows(appData, rows, qaResults, now) ==
  keptRecords([i \in 1..Len(rows) |-> proxyRecord(appData, rows[i], qaResults, now)])

getProxyData(appData, approverFilter, now) ==
  mapRows(appData, proxyRows(appData, approverFilter), getQuickAuditAccounts(appData), now)

-----------------------------------------------------------------------------
(* Quick audit and proxy requests on a loaded cache (SpecAudit).           *)

OrgParvis == [orgName |-> "Parvis", subDetails |-> "Trial"]

\* confData of a directory with alpha.conf, beta.conf and parvis.conf.
AuditConf == ("alpha" :> OrgAlpha) @@ ("beta" :> OrgBeta) @@ ("parvis" :> OrgParvis)

AuditDataMaps ==
  DataMaps \cup { <<[key |-> "amy@x.com", value |-> MainRow("amy@x.com")]>> }

AuditSources ==
  LET all == UNION { [1..n -> [baseName : DOMAIN AuditConf, dataMap : AuditDataMaps]] :
                       n \in 0..MaxSources }
  IN { ds \in all : \A i, j \in 1..Len(ds) : i # j => ds[i].baseName # ds[j].baseName }

\* Rows of the additional file around the 'Not Paid' threshold.
AuditRows ==
  { AdditionalCols("carol", "20250724", "1m", ""),
    AdditionalCols("Carol", "20250801x", "12m", "alpha"),
    AdditionalCols("dave", "20250723", "12m", ""),
    AdditionalCols("dave", "20250801", "1M", "beta.csv"),
    AdditionalCols("", "rolling", "12m", "alpha"),
    AdditionalCols("carol", "20240101", "12m", "") }

AuditAdditionalMaps ==
  LET entries == { [key |-> e, value |-> ("Email" :> e) @@ r] : e \in EmailKeys, r \in AuditRows }
      all == UNION { [1..n -> entries] : n \in 0..Cardinality(EmailKeys) }
  IN { m \in all : \A i, j \in 1..Len(m) : i < j => StrLE(m[j].key, m[i].key) /\ m[i].key # m[j].key }

PaymentRow(email) ==
  ("Email" :> email) @@ ("PaymentDate" :> "20250802") @@ ("Approver" :> "carol") @@ ("pov" :> "12m")

PaymentMaps == { <<>>, <<[key |-> "bob@x.com", value |-> PaymentRow("bob@x.com")]>> }

AuditDatas ==
  [dataSources : AuditSources, additionalMap : AuditAdditionalMaps,
   paymentMap : PaymentMaps, confData : {AuditConf}]

\* The roles of a session, and the dates the clock may give.
AuditRoles == {"admin", "Admin", "carol", "dave"}
AuditTodays == {"20250815", "20250901"}

InitAudit ==
  /\ cachedData \in AuditDatas
  /\ dataPromise = 1
  /\ build = [id \in BuildIds |-> IF id = 1 THEN [phase |-> "fulfilled", data |-> cachedData]
                                              ELSE NoBuild]
  /\ started = 1
  /\ pc = [c \in Callers |-> "idle"]
  /\ handle = [c \in Callers |-> NoHandle]
  /\ got = [c \in Callers |-> NullData]
  /\ op = "none"
  /\ arg = Undefined
  /\ today = Undefined
  /\ result = Undefined
  /\ apiKey = Undefined
  /\ keyFile = Undefined

\* GET with type 'qa': the audit, then the role's filter unless the role is
\* exactly 'admin'.
QuickAudit ==
  \E approverRole \in AuditRoles :
    /\ op = "none"
    /\ op' = "qa"
    /\ arg' = approverRole
    /\ today' = today
    /\ result' =
         LET audit == getQuickAuditAccounts(cachedData)
             same(acc) == toLowerCase(acc.approver) = toLowerCase(approverRole)
         IN [audit |-> audit,
             qaAccounts |-> IF approverRole # "admin" THEN SelectSeq(audit, same) ELSE audit]
    /\ UNCHANGED cacheVars

\* GET with type 'proxy', for the session's role.
Proxy ==
  \E approverRole \in AuditRoles, now \in AuditTodays :
    /\ op = "none"
    /\ op' = "proxy"
    /\ arg' = approverRole
    /\ today' = now
    /\ result' = getProxyData(cachedData, approverRole, now)
    /\ UNCHANGED cacheVars

NextAudit == QuickAudit \/ Proxy \/ Respond

SpecAudit == InitAudit /\ [][NextAudit]_vars

-----------------------------------------------------------------------------
(* Properties of quick audit and the proxy dashboard, under SpecAudit.     *)

\* The emails an audit lists under a reason, and the entries of an email.
AuditEmails(audit, reason) ==
  {audit[i].email : i \in {j \in 1..Len(audit) : audit[j].reason = reason}}
AuditEntriesOf(audit, e) == {i \in 1..Len(audit) : audit[i].email = e}

\* The string is a decimal number: digits only, at least one.
IsNumeric(v) == v # "" /\ LeadingDigits(v, Len(v)) = Len(v)

\* The integer the string begins with, after an optional sign; 0 if none.
LeadingValue(v) == IF parseIntPrefix(v).nan THEN 0 ELSE parseIntPrefix(v).n

\* Every 'Not Paid' entry carries the rat, approver and pov of its record.
NotPaidCarriesRecord(audit) ==
  \A i \in 1..Len(audit) :
    audit[i].reason = "Not Paid" =>
      /\ audit[i].rat = DashIfEmpty(ColumnOf(audit[i].email, "rat"))
      /\ audit[i].approver = DashIfEmpty(ColumnOf(audit[i].email, "Approver"))
      /\ audit[i].pov = DashIfEmpty(ColumnOf(audit[i].email, "pov"))

\* C11 as stated: the 'Not Paid' pass lists exactly the additional-record
\* emails whose raw approval date is numeric and >= 20250724, that are a key
\* of some DataSource and absent from PaymentRecord, each with the record's
\* rat, approver and pov.
C11_AsStated ==
  op = "qa" =>
    /\ AuditEmails(result.audit, "Not Paid") =
         { e \in MapKeys(cachedData.additionalMap) :
             /\ IsNumeric(ColumnOf(e, "rat"))
             /\ parseInt(ColumnOf(e, "rat")) >= 20250724
             /\ Len(SourcesHolding(e)) >= 1
             /\ e \notin MapKeys(cachedData.paymentMap) }
    /\ NotPaidCarriesRecord(result.audit)

\* C11, amended: the approval date need not be numeric as a whole: it counts
\* when it begins with decimal digits whose integer value is >= 20250724,
\* whatever follows them.
C11_NotPaidPass ==
  op = "qa" =>
    /\ AuditEmails(result.audit, "Not Paid") =
         { e \in MapKeys(cachedData.additionalMap) :
             /\ LeadingValue(ColumnOf(e, "rat")) >= 20250724
             /\ Len(SourcesHolding(e)) >= 1
             /\ e \notin MapKeys(cachedData.paymentMap) }
    /\ NotPaidCarriesRecord(result.audit)

\* amy, approved on the threshold day, in a DataSource and without a
\* payment, is listed; bob, approved as late but paid, is not.
C11_Witness ==
  /\ op = "qa"
  /\ HasRecord("amy@x.com") /\ HasRecord("bob@x.com")
  /\ ColumnOf("amy@x.com", "rat") = "20250724"
  /\ ColumnOf("bob@x.com", "rat") = "20250801"
  /\ Len(SourcesHolding("bob@x.com")) >= 1
  /\ "bob@x.com" \in MapKeys(cachedData.paymentMap)
  /\ AuditEmails(result.audit, "Not Paid") = {"amy@x.com"}
  /\ \E i \in 1..Len(result.audit) :
       result.audit[i] = [email |-> "amy@x.com", rat |-> "20250724", approver |-> "carol",
                          pov |-> "1m", reason |-> "Not Paid"]

\* The baseNames the 'Not Registered' pass leaves out.
DenyList == {"blueskyy", "parvis"}

\* C12: the 'Not Registered' pass lists exactly the emails that are a key of
\* some DataSource whose baseName is not on the deny-list, that have no
\* additional record and that the same run did not flag 'Not Paid', each
\* with rat, approver and pov '-'.
C12_NotRegisteredPass ==
  op = "qa" =>
    /\ AuditEmails(result.audit, "Not Registered") =
         { e \in EmailKeys :
             /\ \E i \in 1..Len(cachedData.dataSources) :
                  /\ cachedData.dataSources[i].baseName \notin DenyList
                  /\ e \in MapKeys(cachedData.dataSources[i].dataMap)
             /\ ~HasRecord(e)
             /\ e \notin AuditEmails(result.audit, "Not Paid") }
    /\ \A i \in 1..Len(result.audit) :
         result.audit[i].reason = "Not Registered" =>
           /\ result.audit[i].rat = "-"
           /\ result.audit[i].approver = "-"
           /\ result.audit[i].pov = "-"

\* bob is in alpha and in parvis, amy in parvis only, neither has an
\* additional record: bob is listed, amy is not.
C12_Witness ==
  /\ op = "qa"
  /\ Len(cachedData.dataSources) = 2
  /\ cachedData.dataSources[1].baseName = "parvis"
  /\ MapKeys(cachedData.dataSources[1].dataMap) = {"bob@x.com", "amy@x.com"}
  /\ cachedData.dataSources[2].baseName = "alpha"
  /\ MapKeys(cachedData.dataSources[2].dataMap) = {"bob@x.com"}
  /\ cachedData.additionalMap = <<>>
  /\ AuditEmails(result.audit, "Not Registered") = {"bob@x.com"}

\* C13: in the result of one quick-audit run every email appears at most
\* once: not under both reasons, and not twice under 'Not Registered' when
\* several DataSources hold it.
C13_AuditListsOnce ==
  op = "qa" =>
    /\ \A e \in EmailKeys : Cardinality(AuditEntriesOf(result.audit, e)) <= 1
    /\ AuditEmails(result.audit, "Not Paid") \cap AuditEmails(result.audit, "Not Registered") = {}

\* bob is in two DataSources on neither deny-list entry and has no
\* additional record, amy is 'Not Paid': each is listed once.
C13_Witness ==
  /\ op = "qa"
  /\ Len(SourcesHolding("bob@x.com")) = 2
  /\ \A i \in 1..2 : SourcesHolding("bob@x.com")[i].baseName \notin DenyList
  /\ ~HasRecord("bob@x.com")
  /\ AuditEmails(result.audit, "Not Registered") = {"bob@x.com"}
  /\ AuditEmails(result.audit, "Not Paid") = {"amy@x.com"}
  /\ Len(result.audit) = 2

\* The role is the admin sentinel of the proxy dashboard.
IsAdminRole(r) == toLowerCase(r) = "admin"

\* The additional-record emails the proxy dashboard of role r is about.
ProxyEmails(r) ==
  { e \in MapKeys(cachedData.additionalMap) :
      /\ IsAdminRole(r) \/ toLowerCase(ColumnOf(e, "Approver")) = toLowerCase(r)
      /\ performExactSearch(e, cachedData).status = "Valid" }

\* C14: the proxy dashboard for role r returns exactly one record per
\* additional record whose approver equals r without regard to case (every
\* record for the admin role) and whose exact-search status is Valid; no
\* returned record is Invalid, and for another role than admin every
\* returned record's approver equals r without regard to case.
C14_ProxyRecords ==
  op = "proxy" =>
    /\ {result[i].email : i \in 1..Len(result)} = ProxyEmails(arg)
    /\ Len(result) = Cardinality(ProxyEmails(arg))
    /\ \A i \in 1..Len(result) :
         /\ result[i].status # "Invalid"
         /\ ~IsAdminRole(arg) => toLowerCase(result[i].approver) = toLowerCase(arg)

\* carol's dashboard: bob, approved by Carol, is returned; amy, approved by
\* carol too but in no DataSource and with no hint, is Invalid and dropped.
C14_Witness ==
  /\ op = "proxy"
  /\ arg = "carol"
  /\ HasRecord("bob@x.com") /\ HasRecord("amy@x.com")
  /\ ColumnOf("bob@x.com", "Approver") = "Carol"
  /\ ColumnOf("amy@x.com", "Approver") = "carol"
  /\ performExactSearch("amy@x.com", cachedData).status = "Invalid"
  /\ Len(result) = 1
  /\ result[1].email = "bob@x.com"
  /\ result[1].status = "Valid"

\* The quick-audit reason of the email, "" when quick audit does not list it.
AuditReasonOf(e) ==
  LET audit == getQuickAuditAccounts(cachedData) IN
  IF AuditEntriesOf(audit, e) = {} THEN ""
  ELSE audit[CHOOSE i \in AuditEntriesOf(audit, e) : TRUE].reason

\* The record's authorization has expired and a DataSource still holds it.
IsExpiredOn(e, day) ==
  /\ IsRealDate(ExpirationOf(e))
  /\ StrLE(ExpirationOf(e), day)
  /\ Len(SourcesHolding(e)) >= 1

\* C15: a proxy record's tag is 'Authorization Expired' when the computed
\* expiration is a real date <= today and a DataSource holds the email;
\* otherwise the quick-audit reason of the email when quick audit lists it;
\* otherwise empty.  An account both expired and 'Not Paid' is tagged
\* 'Authorization Expired'.
C15_ProxyTag ==
  op = "proxy" =>
    \A i \in 1..Len(result) :
      result[i].tag =
        IF IsExpiredOn(result[i].email, today) THEN "Authorization Expired"
        ELSE AuditReasonOf(result[i].email)

\* bob, approved on 20250724 for one month and unpaid, is 'Not Paid' for
\* quick audit and expired on 20250901: the tag is 'Authorization Expired'.
C15_Witness ==
  /\ op = "proxy"
  /\ today = "20250901"
  /\ HasRecord("bob@x.com")
  /\ ExpirationOf("bob@x.com") = "20250824"
  /\ AuditReasonOf("bob@x.com") = "Not Paid"
  /\ \E i \in 1..Len(result) :
       result[i].email = "bob@x.com" /\ result[i].tag = "Authorization Expired"

-----------------------------------------------------------------------------
(* Fuzzy search, in the main route and in /api/v1/query (SpecFuzzy).       *)

\* A faulty variant that matches at the start of the key only.
keyStartsWith(key, searchTerm) ==
  Len(searchTerm) <= Len(key) /\ SubSeq(key, 1, Len(searchTerm)) = searchTerm

\* key.includes(searchTerm)
keyIncludes(key, searchTerm) ==
  \E i \in 0..(Len(key) - Len(searchTerm)) : SubSeq(key, i + 1, i + Len(searchTerm)) = searchTerm

\* The two scans: the keys of every DataSource, then those of additionalMap.
fuzzyFound(searchTerm, appData) ==
  \/ \E d \in 1..Len(appData.dataSources) :
       \E k \in 1..Len(appData.dataSources[d].dataMap) :
         keyIncludes(appData.dataSources[d].dataMap[k].key, searchTerm)
  \/ \E k \in 1..Len(appData.additionalMap) :
       keyIncludes(appData.additionalMap[k].key, searchTerm)

\* A faulty variant that lets every term through.
tooShortNever(searchTerm) == FALSE

\* searchTerm.length < 3
tooShort(searchTerm) == Len(searchTerm) < 3

\* The bodies of the responses; of each message the English half is kept
\* and the translated half, which repeats the echo, is abridged to "...".
LengthError == "Fuzzy search requires at least 3 characters. / ..."
FoundMessage ==
  "Potential matches found. Please enter a more specific or full email address for an exact search. / ..."
NotFoundError(echo) ==
  "No potential matches found for \"" \o echo \o "\". / ... \"" \o echo \o "\" ..."
MissingError == "Missing email or type in request body."

\* A response: its status, its one field, and whether the handler went
\* through the email indices to produce it.
Response(status, field, text, scanned) ==
  [status |-> status, field |-> field, text |-> text, scanned |-> scanned]

\* POST of the main route with type 'fuzzy': every response has status 200
\* and the miss echoes the email as sent.
fuzzyMain(searchEmail, appData) ==
  LET searchTerm == toLowerCase(trim(searchEmail)) IN
  IF tooShort(searchTerm) THEN Response(200, "error", LengthError, FALSE)
  ELSE IF fuzzyFound(searchTerm, appData) THEN Response(200, "message", FoundMessage, TRUE)
  ELSE Response(200, "error", NotFoundError(searchEmail), TRUE)

\* performFuzzySearch of /api/v1/query: the miss echoes the search term.
performFuzzySearch(searchTerm, appData) ==
  IF tooShort(searchTerm) THEN Response(400, "error", LengthError, FALSE)
  ELSE IF fuzzyFound(searchTerm, appData) THEN Response(200, "message", FoundMessage, TRUE)
  ELSE Response(404, "error", NotFoundError(searchTerm), TRUE)

\* POST of /api/v1/query with type 'fuzzy', from an authorized caller: an
\* empty email is refused before the search.
fuzzyV1(email, appData) ==
  IF ~Truthy(email) THEN Response(400, "error", MissingError, FALSE)
  ELSE performFuzzySearch(toLowerCase(trim(email)), appData)

fuzzyResponse(route, email, appData) ==
  IF route = "main" THEN fuzzyMain(email, appData) ELSE fuzzyV1(email, appData)

Routes == {"main", "v1"}

\* What a caller may send as the email of a fuzzy search.
FuzzyInputs ==
  {"bob", " BOB@x ", "amy@x.com", "x.c", "zed", "zed@x.com", "bo", " a ", "   ", ""}

\* Datasets with up to one additional record.
FuzzyConf == ("alpha" :> OrgAlpha) @@ ("beta" :> OrgBeta)
FuzzyDatas ==
  [dataSources : SourcesOf(FuzzyConf),
   additionalMap : { <<>>,
                     <<[key |-> "bob@x.com",
                        value |-> ("Email" :> "bob@x.com") @@ AdditionalCols("carol", "20240101", "12m", "")]>>,
                     <<[key |-> "amy@x.com",
                        value |-> ("Email" :> "amy@x.com") @@ AdditionalCols("dave", "20240115", "1y", "")]>> },
   paymentMap : {<<>>}, confData : {FuzzyConf}]

InitFuzzy ==
  /\ cachedData \in FuzzyDatas
  /\ dataPromise = 1
  /\ build = [id \in BuildIds |-> IF id = 1 THEN [phase |-> "fulfilled", data |-> cachedData]
                                              ELSE NoBuild]
  /\ started = 1
  /\ pc = [c \in Callers |-> "idle"]
  /\ handle = [c \in Callers |-> NoHandle]
  /\ got = [c \in Callers |-> NullData]
  /\ op = "none"
  /\ arg = Undefined
  /\ today = Undefined
  /\ result = Undefined
  /\ apiKey = Undefined
  /\ keyFile = Undefined

\* POST with type 'fuzzy' to one of the two routes.
FuzzySearch ==
  \E route \in Routes, searchEmail \in FuzzyInputs :
    /\ op = "none"
    /\ op' = "fuzzy"
    /\ arg' = [route |-> route, email |-> searchEmail]
    /\ today' = today
    /\ result' = fuzzyResponse(route, searchEmail, cachedData)
    /\ UNCHANGED cacheVars

NextFuzzy == FuzzySearch \/ Respond

SpecFuzzy == InitFuzzy /\ [][NextFuzzy]_vars

\* The search term of a request, and the email keys of a dataset.
TermOf(email) == toLowerCase(trim(email))
AllKeys(appData) ==
  MapKeys(appData.additionalMap)
    \cup UNION { MapKeys(appData.dataSources[i].dataMap) : i \in 1..Len(appData.dataSources) }

\* s occurs in t.
OccursIn(s, t) == \E i \in 1..(Len(t) - Len(s) + 1) : SubSeq(t, i, i + Len(s) - 1) = s

\* Some email key of the dataset contains the term.
AnyKeyContains(appData, term) == \E k \in AllKeys(appData) : OccursIn(term, k)

C17_AsStated ==
  op = "fuzzy" =>
    (Len(trim(arg.email)) < 3 => (result.text = LengthError /\ ~result.scanned))

\* C17, amended: so it is, except that /api/v1/query answers a request whose
\* email is the empty string with the 'Missing email or type' error; there
\* too the indices are not scanned.
C17_ShortTermRefused ==
  op = "fuzzy" =>
    (Len(trim(arg.email)) < 3 =>
       /\ ~result.scanned
       /\ result.field = "error"
       /\ result.text = IF arg.route = "v1" /\ arg.email = "" THEN MissingError ELSE LengthError)

\* 'bo' is refused by /api/v1/query although bob@x.com is a key.
C17_Witness ==
  /\ op = "fuzzy"
  /\ arg = [route |-> "v1", email |-> "bo"]
  /\ "bob@x.com" \in AllKeys(cachedData)
  /\ result = Response(400, "error", LengthError, FALSE)

-----------------------------------------------------------------------------
(* The user count of /api/v1/query (SpecCount).                            *)

\* line.split('=').map(s => s.trim()): the first two parts; the second is
\* Undefined for a line without '='.
RECURSIVE upTo(_, _)
upTo(s, c) == IF s = "" \/ Head(s) = c THEN "" ELSE Head(s) \o upTo(Tail(s), c)
confKey(line) == trim(upTo(line, "="))
confValue(line) ==
  LET k == Len(upTo(line, "=")) IN
  IF k = Len(line) THEN Undefined
  ELSE trim(upTo(SubSeq(line, k + 2, Len(line)), "="))

\* The loop of getUserCount over the lines of user.conf, from the defaults.
RECURSIVE readUserConf(_, _)
readUserConf(lines, config) ==
  IF Len(lines) = 0 THEN config
  ELSE LET key == confKey(Head(lines))
           parsed == parseIntPrefix(confValue(Head(lines)))
           c1 == IF key = "udgr" /\ ~parsed.nan THEN [config EXCEPT !.udgr = parsed.n] ELSE config
           c2 == IF key = "naud" /\ ~parsed.nan THEN [c1 EXCEPT !.naud = parsed.n] ELSE c1
       IN readUserConf(Tail(lines), c2)

\* userCountConfig: the defaults when user.conf cannot be read.
userCountConfigOf(userConf) ==
  IF ~userConf.readable THEN [udgr |-> 100, naud |-> 0]
  ELSE readUserConf(userConf.lines, [udgr |-> 100, naud |-> 0])

\* A faulty variant that counts every email once.
totalDistinctCount(dataSources) ==
  Cardinality(UNION { MapKeys(dataSources[i].dataMap) : i \in 1..Len(dataSources) })

\* dataSources.reduce((sum, ds) => sum + ds.dataMap.size, 0)
RECURSIVE totalRowsCount(_)
totalRowsCount(dataSources) ==
  IF Len(dataSources) = 0 THEN 0
  ELSE Len(Head(dataSources).dataMap) + totalRowsCount(Tail(dataSources))

\* The triples (rows, udgr, naud), among those the model computes, for which
\* the binary64 value of rows * (udgr / 100) + naud is just below the integer
\* it stands for: 100 * 1.15 is 114.99999999999999, 100 * 0.29 is
\* 28.999999999999996.
Float64Below ==
  { <<100, 115, 0>>, <<100, 115, 10>>, <<100, 115, 0 - 3>>, <<100, 115, 5>>,
    <<100, 29, 0>>, <<100, 29, 0 - 3>> }

\* Math.floor((totalRowsCount * rate) + additional) with rate = (udgr || 100) / 100
\* and additional = naud || 0, in binary64.
adjustedCount(rows, config) ==
  LET udgr == IF config.udgr = 0 THEN 100 ELSE config.udgr
      additional == config.naud
      exact == ((rows * udgr) \div 100) + additional
  IN IF <<rows, udgr, additional>> \in Float64Below THEN exact - 1 ELSE exact

getUserCount(userConf, appData) ==
  [count |-> adjustedCount(totalRowsCount(appData.dataSources), userCountConfigOf(userConf))]

\* A main CSV family of n users.
BulkMap(n) ==
  [i \in 1..n |-> [key |-> "user" \o NatToStr(i) \o "@x.com",
                   value |-> MainRow("user" \o NatToStr(i) \o "@x.com")]]

\* DataSources of 0, 2, 7, 100 and 60 + 40 rows; in the last ones and in the
\* second the same emails are in both DataSources.
CountSources ==
  { <<>>,
    <<[baseName |-> "alpha", dataMap |-> BulkMap(1)], [baseName |-> "beta", dataMap |-> BulkMap(1)]>>,
    <<[baseName |-> "alpha", dataMap |-> BulkMap(7)]>>,
    <<[baseName |-> "alpha", dataMap |-> BulkMap(100)]>>,
    <<[baseName |-> "alpha", dataMap |-> BulkMap(60)], [baseName |-> "beta", dataMap |-> BulkMap(40)]>> }

CountDatas ==
  [dataSources : CountSources, additionalMap : {<<>>}, paymentMap : {<<>>}, confData : {FuzzyConf}]

\* The lines user.conf may hold for each key, and what reading it may give:
\* nothing when the file cannot be read.
UdgrLines == {"udgr=150", "udgr=115", "udgr=0", "udgr = 29 ", "udgr=abc", "udgr=110x", "udgr=-50"}
NaudLines == {"naud=10", "naud=0", "naud=-3", "naud=1000", "naud=x"}
UserConfLines ==
  {<<>>} \cup { <<u>> : u \in UdgrLines } \cup { <<n>> : n \in NaudLines }
         \cup { <<u, n>> : u \in UdgrLines, n \in NaudLines }
UserConfs ==
  {[readable |-> FALSE, lines |-> <<>>]} \cup [readable : {TRUE}, lines : UserConfLines]

InitCount ==
  /\ cachedData \in CountDatas
  /\ dataPromise = 1
  /\ build = [id \in BuildIds |-> IF id = 1 THEN [phase |-> "fulfilled", data |-> cachedData]
                                              ELSE NoBuild]
  /\ started = 1
  /\ pc = [c \in Callers |-> "idle"]
  /\ handle = [c \in Callers |-> NoHandle]
  /\ got = [c \in Callers |-> NullData]
  /\ op = "none"
  /\ arg = Undefined
  /\ today = Undefined
  /\ result = Undefined
  /\ apiKey = Undefined
  /\ keyFile = Undefined

\* GET with type 'count' from an authorized caller: user.conf is read at
\* every request.
UserCount ==
  \E userConf \in UserConfs :
    /\ op = "none"
    /\ op' = "count"
    /\ arg' = [userConf |-> userConf]
    /\ today' = today
    /\ result' = getUserCount(userConf, cachedData)
    /\ UNCHANGED cacheVars

NextCount == UserCount \/ Respond

SpecCount == InitCount /\ [][NextCount]_vars

\* The integer user.conf configures for a key: that of the last line of the
\* key whose value begins with a number, the default when there is none.
ConfiguredInt(userConf, key, default) ==
  LET lines == IF userConf.readable THEN userConf.lines ELSE <<>>
      good == { i \in 1..Len(lines) :
                  confKey(lines[i]) = key /\ ~parseIntPrefix(confValue(lines[i])).nan }
  IN IF good = {} THEN default
     ELSE parseIntPrefix(confValue(lines[CHOOSE i \in good : \A j \in good : j <= i])).n

\* N: the rows summed over the DataSources.
RowsOf(appData) ==
  LET sizes == [i \in 1..Len(appData.dataSources) |-> Cardinality(MapKeys(appData.dataSources[i].dataMap))]
      sum[i \in 0..Len(sizes)] == IF i = 0 THEN 0 ELSE sum[i - 1] + sizes[i]
  IN sum[Len(sizes)]

\* floor(N * udgr / 100) + naud
CountFormula(rows, udgr, naud) == ((rows * udgr) \div 100) + naud

\* C18 as stated, for every configured udgr other than 0: the user count is
\* floor(N * udgr / 100) + naud, with N the rows summed over the DataSources
\* and udgr, naud the integers of user.conf (100 and 0 by default).
C18_AsStated ==
  op = "count" =>
    LET udgr == ConfiguredInt(arg.userConf, "udgr", 100)
        naud == ConfiguredInt(arg.userConf, "naud", 0)
    IN udgr # 0 => result.count = CountFormula(RowsOf(cachedData), udgr, naud)

\* C18, what holds: the user count is never above the formula's value and at
\* most one below it, and udgr = 0 counts as 100.
C18_CountWithinOne ==
  op = "count" =>
    LET udgr == ConfiguredInt(arg.userConf, "udgr", 100)
        naud == ConfiguredInt(arg.userConf, "naud", 0)
        formula == CountFormula(RowsOf(cachedData), IF udgr = 0 THEN 100 ELSE udgr, naud)
    IN formula - 1 <= result.count /\ result.count <= formula

\* udgr=150, naud=10 and 100 rows, 40 of them emails of both DataSources: 160.
C18_Witness ==
  /\ op = "count"
  /\ arg.userConf.lines = <<"udgr=150", "naud=10">>
  /\ Len(cachedData.dataSources) = 2
  /\ RowsOf(cachedData) = 100
  /\ result.count = 160

-----------------------------------------------------------------------------
(* calculateExpirationDate on approval dates and period codes (SpecDates). *)

\* Valid YYYYMMDD approval dates, and period codes matching ^(\d+)([my])$
\* once trimmed and lower-cased.
ApprovalDates ==
  {"20240101", "20240131", "20240229", "20231130", "20241231", "20240831",
   "19000228", "20000229", "20250724", "00010101", "99991231", "20230531"}
PeriodCodes ==
  {"1m", "12m", "1M", "13m", "0m", "24m", "012m", " 6m ", "1y", "4y", "0y", "1Y",
   "100y", "8000y", "3300000m", "300000y"}

InitDates ==
  /\ cachedData = EmptyAppData
  /\ dataPromise = 1
  /\ build = [id \in BuildIds |-> IF id = 1 THEN [phase |-> "fulfilled", data |-> cachedData]
                                              ELSE NoBuild]
  /\ started = 1
  /\ pc = [c \in Callers |-> "idle"]
  /\ handle = [c \in Callers |-> NoHandle]
  /\ got = [c \in Callers |-> NullData]
  /\ op = "none"
  /\ arg = Undefined
  /\ today = Undefined
  /\ result = Undefined
  /\ apiKey = Undefined
  /\ keyFile = Undefined

\* calculateExpirationDate is applied to an approval date and a period.
Calculate ==
  \E approvalDateStr \in ApprovalDates, validityPeriod \in PeriodCodes :
    /\ op = "none"
    /\ op' = "calculate"
    /\ arg' = [rat |-> approvalDateStr, pov |-> validityPeriod]
    /\ today' = today
    /\ result' = calculateExpirationDate(approvalDateStr, validityPeriod)
    /\ UNCHANGED cacheVars

NextDates == Calculate \/ Respond

SpecDates == InitDates /\ [][NextDates]_vars

\* The date a string of digits ending in MMdd stands for: the year is all
\* but the last four digits.
DateOf(str) ==
  [y |-> parseInt(SubSeq(str, 1, Len(str) - 4)),
   m |-> parseInt(SubSeq(str, Len(str) - 3, Len(str) - 2)),
   d |-> parseInt(SubSeq(str, Len(str) - 1, Len(str)))]

\* The number of months a period code stands for.
MonthsOf(period) ==
  LET p == toLowerCase(trim(period))
      amount == parseInt(SubSeq(p, 1, Len(p) - 1))
  IN IF Ch(p, Len(p)) = "y" THEN 12 * amount ELSE amount

MonthIndex(date) == date.y * 12 + date.m - 1

\* Date a is not later than date b.
NotLater(a, b) ==
  \/ a.y < b.y
  \/ a.y = b.y /\ a.m < b.m
  \/ a.y = b.y /\ a.m = b.m /\ a.d <= b.d

\* The result is the approval date plus the period: the month that many
\* months later, the same day or the last day of a shorter month, written
\* as year, two-digit month and two-digit day, and not before the approval.
IsApprovalPlusPeriod ==
  /\ Len(result) >= 8
  /\ LeadingDigits(result, Len(result)) = Len(result)
  /\ LET a == DateOf(arg.rat)
         r == DateOf(result)
     IN /\ MonthIndex(r) = MonthIndex(a) + MonthsOf(arg.pov)
        /\ r.d = IF a.d <= DaysInMonth(r.y, r.m) THEN a.d ELSE DaysInMonth(r.y, r.m)
        /\ NotLater(a, r)

-----------------------------------------------------------------------------
(* Authentication of /api/v1/query (SpecAuth).                             *)

\* getApiKey(): the cached key if there is one, else the trimmed content of
\* apipwd.conf; Undefined or '' stands for the throw ('is empty', or the
\* read error), after which nothing is cached.
getApiKey ==
  IF Truthy(apiKey) THEN apiKey
  ELSE IF keyFile = Undefined THEN Undefined
  ELSE trim(keyFile)

\* authHeader.startsWith('Bearer ')
startsWithBearer(authHeader) ==
  Len(authHeader) >= 7 /\ SubSeq(authHeader, 1, 7) = "Bearer "

\* A faulty variant that accepts every key.
keyMatchesAlways(providedKey, expectedApiKey) == TRUE

\* providedKey !== expectedApiKey, negated
keyMatches(providedKey, expectedApiKey) == providedKey = expectedApiKey

HeaderError == "Unauthorized: Missing or invalid Authorization header."
KeyError == "Unauthorized: Invalid API Key."
ConfigError == "Server configuration error: API key not available."

\* A response of handleRequest itself, and the response of the action it
\* ran; executed says whether the action ran.
NoData == [none |-> TRUE]
Refused(status, text) == [status |-> status, error |-> text, executed |-> FALSE, data |-> NoData]
Answered(body) == [status |-> 200, error |-> "", executed |-> TRUE, data |-> [value |-> body]]

\* handleRequest(request, action), given what the action would return.
handleRequest(authHeader, body) ==
  LET expectedApiKey == getApiKey IN
  IF ~Truthy(expectedApiKey) THEN Refused(500, ConfigError)
  ELSE IF ~Truthy(authHeader) \/ ~startsWithBearer(authHeader) THEN Refused(401, HeaderError)
  ELSE IF ~keyMatches(SubSeq(authHeader, 8, Len(authHeader)), expectedApiKey)
    THEN Refused(401, KeyError)
  ELSE Answered(body)

\* What apipwd.conf may hold, and what a request may carry as Authorization
\* header: Undefined is a request without the header.
KeyFiles == {Undefined, "", "k1", "k1 ", "k2"}
AuthHeaders == {Undefined, "k1", "Bearer k1", "Bearer k2", "bearer k1", "Bearer  k1", "Basic k1"}

\* The four requests of the route.
RequestKinds == {"count", "expired", "exact", "fuzzy"}

InitAuth ==
  /\ cachedData = SampleAppData
  /\ dataPromise = 1
  /\ build = [id \in BuildIds |-> IF id = 1 THEN [phase |-> "fulfilled", data |-> cachedData]
                                              ELSE NoBuild]
  /\ started = 1
  /\ pc = [c \in Callers |-> "idle"]
  /\ handle = [c \in Callers |-> NoHandle]
  /\ got = [c \in Callers |-> NullData]
  /\ op = "none"
  /\ arg = Undefined
  /\ today = Undefined
  /\ result = Undefined
  /\ apiKey = Undefined
  /\ keyFile \in KeyFiles

\* apipwd.conf is written, emptied or removed, between two requests.
WriteKeyFile ==
  \E content \in KeyFiles :
    /\ op = "none"
    /\ keyFile' = content
    /\ UNCHANGED <<cachedData, dataPromise, build, started, pc, handle, got, apiKey>>
    /\ UNCHANGED queryVars

\* A GET or POST of /api/v1/query: handleRequest gets the key, tests the
\* header and runs the action.
Request ==
  \E kind \in RequestKinds, authHeader \in AuthHeaders, email \in {"bob@x.com", "zed"},
     now \in Todays, userConf \in {[readable |-> FALSE, lines |-> <<>>]} :
    /\ op = "none"
    /\ op' = "request"
    /\ arg' = [kind |-> kind, header |-> authHeader,
               email |-> IF kind \in {"exact", "fuzzy"} THEN email ELSE Undefined]
    /\ today' = IF kind = "expired" THEN now ELSE Undefined
    /\ result' =
         handleRequest(authHeader,
           CASE kind = "count" -> getUserCount(userConf, cachedData)
             [] kind = "expired" -> [expiredAccounts |-> getExpiredAccounts(cachedData, Undefined, now)]
             [] kind = "exact" -> performExactSearch(toLowerCase(trim(email)), cachedData)
             [] kind = "fuzzy" -> fuzzyV1(email, cachedData))
    /\ apiKey' = IF Truthy(getApiKey) THEN getApiKey ELSE apiKey
    /\ UNCHANGED <<cachedData, dataPromise, build, started, pc, handle, got, keyFile>>

NextAuth == WriteKeyFile \/ Request \/ Respond

SpecAuth == InitAuth /\ [][NextAuth]_vars

\* The key stored in apipwd.conf now: '' when the file is unreadable or empty.
KeyInFile == IF keyFile = Undefined THEN "" ELSE trim(keyFile)

\* The request was refused: an error, no query executed, no data.
IsRefused(response) ==
  response.status \in {401, 500} /\ ~response.executed /\ response.data = NoData

\* C20 as stated: a request whose Authorization header is missing, is not
\* 'Bearer <token>' or carries a token different from the key stored in
\* apipwd.conf is answered with an Unauthorized error, no query is executed
\* and no data returned; while the file is unreadable or empty every request
\* fails.
C20_AsStated ==
  op = "request" =>
    /\ KeyInFile = "" => IsRefused(result)
    /\ (KeyInFile # "" /\ arg.header # "Bearer " \o KeyInFile) =>
         (IsRefused(result) /\ result.status = 401)

\* This step is a request.
IsRequestStep == op = "none" /\ op' = "request"

\* C20, amended: the key a request is tested against is the one the process
\* holds: the first non-empty key it read from apipwd.conf, kept from then
\* on whatever becomes of the file.  A request without the header, with a
\* header that is not 'Bearer <token>' or with another token is refused as
\* Unauthorized, no query executed and no data returned; while no key has
\* been read (the file unreadable or empty) every request fails with the
\* configuration error, and the next request reads the file again.
C20_RefusedWithoutTheKey ==
  /\ [](op = "request" =>
          IF ~Truthy(apiKey)
            THEN KeyInFile = "" /\ result = Refused(500, ConfigError)
            ELSE /\ arg.header # "Bearer " \o apiKey =>
                      (IsRefused(result) /\ result.status = 401)
                 /\ arg.header = "Bearer " \o apiKey => result.executed)
  /\ [][/\ Truthy(apiKey) => apiKey' = apiKey
        /\ (IsRequestStep /\ ~Truthy(apiKey) /\ KeyInFile # "") => apiKey' = KeyInFile]_vars

\* The process holds k1 and the file now holds k2: the token k2 is refused.
C20_Witness ==
  /\ op = "request"
  /\ apiKey = "k1"
  /\ keyFile = "k2"
  /\ arg.header = "Bearer k2"
  /\ result = Refused(401, KeyError)

-----------------------------------------------------------------------------
(* The five query operations against one cached AppData (SpecQueries).     *)

\* A faulty variant in which a query empties the additional index.
afterQueryCleared(appData) == [appData EXCEPT !.additionalMap = <<>>]

\* The AppData a query operation leaves behind.  performExactSearch, the
\* fuzzy scan, getExpiredAccounts, getQuickAuditAccounts and getProxyData
\* only read appData (has, get, keys, values, entries, some, filter, map) and
\* push to arrays of their own: none assigns to appData, to one of its Maps
\* or to a row.
afterQuery(appData) == appData

\* A dataset with two sources, three additional records and no payment.
QuerySampleData ==
  [dataSources |-> <<[baseName |-> "alpha",
                      dataMap |-> <<[key |-> "bob@x.com", value |-> MainRow("bob@x.com")],
                                    [key |-> "amy@x.com", value |-> MainRow("amy@x.com")]>>],
                     [baseName |-> "beta",
                      dataMap |-> <<[key |-> "bob@x.com", value |-> MainRow("bob@x.com")]>>]>>,
   additionalMap |-> <<[key |-> "bob@x.com",
                        value |-> ("Email" :> "bob@x.com")
                                  @@ AdditionalCols("carol", "20250801", "1m", "")],
                       [key |-> "amy@x.com",
                        value |-> ("Email" :> "amy@x.com")
                                  @@ AdditionalCols("dave", "20240101", "12m", "alpha")],
                       [key |-> "zed@x.com",
                        value |-> ("Email" :> "zed@x.com")
                                  @@ AdditionalCols("carol", "20240101", "12m", "beta.csv")]>>,
   paymentMap |-> <<>>,
   confData |-> ("alpha" :> OrgAlpha) @@ ("beta" :> OrgBeta)]

QueryDatas == {EmptyAppData, SampleAppData, QuerySampleData}

QueryKinds == {"exact", "fuzzy", "expired", "qa", "proxy"}
QueryEmails == {"bob@x.com", " Bob@X.com ", "zed@x.com", "amy"}
QueryRoles == {"admin", "carol", "dave"}
QueryTodays == {"20250101", "20250901"}

\* The inputs of a query: the email of a search, the role and the clock of
\* a listing.
QueryInputs ==
  [kind : {"exact", "fuzzy"}, email : QueryEmails, role : {Undefined}, now : {Undefined}]
  \cup [kind : {"qa"}, email : {Undefined}, role : QueryRoles, now : {Undefined}]
  \cup [kind : {"expired", "proxy"}, email : {Undefined}, role : QueryRoles, now : QueryTodays]

\* The audit of the role, as GET type 'qa' filters it.
qaAccountsOf(audit, approverRole) ==
  LET same(acc) == toLowerCase(acc.approver) = toLowerCase(approverRole)
  IN IF approverRole # "admin" THEN SelectSeq(audit, same) ELSE audit

\* What the main route answers to a query.
answer(q, appData) ==
  CASE q.kind = "exact" -> [exact |-> performExactSearch(toLowerCase(trim(q.email)), appData)]
    [] q.kind = "fuzzy" -> [fuzzy |-> fuzzyMain(q.email, appData)]
    [] q.kind = "expired" -> [expiredAccounts |-> getExpiredAccounts(appData, q.role, q.now)]
    [] q.kind = "qa" -> [qaAccounts |-> qaAccountsOf(getQuickAuditAccounts(appData), q.role)]
    [] q.kind = "proxy" -> [proxyData |-> getProxyData(appData, q.role, q.now)]

InitQueries ==
  /\ cachedData \in QueryDatas
  /\ dataPromise = 1
  /\ build = [id \in BuildIds |-> IF id = 1 THEN [phase |-> "fulfilled", data |-> cachedData]
                                              ELSE NoBuild]
  /\ started = 1
  /\ pc = [c \in Callers |-> "idle"]
  /\ handle = [c \in Callers |-> NoHandle]
  /\ got = [c \in Callers |-> NullData]
  /\ op = "none"
  /\ arg = Undefined
  /\ today = Undefined
  /\ result = Undefined
  /\ apiKey = Undefined
  /\ keyFile = Undefined

\* A query is answered from the cached AppData: a new one when the server
\* waits for a request, or the one just answered, sent once more with the
\* clock unchanged.
Query ==
  \E q \in QueryInputs :
    /\ op \in {"none", "query"}
    /\ op = "query" => q = arg
    /\ op' = (IF op = "none" THEN "query" ELSE "again")
    /\ arg' = q
    /\ today' = q.now
    /\ \E answered \in {answer(q, cachedData)} :
         result' = IF op = "none" THEN [first |-> answered]
                   ELSE [first |-> result.first, second |-> answered]
    /\ cachedData' = afterQuery(cachedData)
    /\ UNCHANGED <<dataPromise, build, started, pc, handle, got, authVars>>

NextQueries == Query \/ Respond

SpecQueries == InitQueries /\ [][NextQueries]_vars

-----------------------------------------------------------------------------
(* The width of an expiration date and the order of its string.            *)

\* The days the clock is compared on.
ClockDays == {"20250101", "20250901", "99991231"}

\* The result is eight digits, and on every day of the clock its string is
\* <= the day's exactly when its date is not later than the day.
IsFixedWidthAndOrdered ==
  /\ Len(result) = 8
  /\ LeadingDigits(result, Len(result)) = Len(result)
  /\ \A day \in ClockDays :
       isPastDue(result, day) <=> NotLater(DateOf(result), DateOf(day))

\* C22 as stated: every value calculateExpirationDate returns other than
\* '-' and 'Rolling' is a string of exactly 8 digits, for every accepted
\* approval date and every period matching the pattern, so that the string
\* comparison 'expiration <= today' agrees with calendar order.
C22_AsStated ==
  (op = "calculate" /\ result \notin {"-", "Rolling"}) => IsFixedWidthAndOrdered

\* C22 up to the year 9999: when the year reached has at most four digits
\* the value is eight digits and its string order is the calendar order.
C22_EightDigitsUpTo9999 ==
  (op = "calculate" /\ result \notin {"-", "Rolling"}
     /\ MonthIndex(DateOf(arg.rat)) + MonthsOf(arg.pov) <= 9999 * 12 + 11)
    => IsFixedWidthAndOrdered

\* The first of January of the year 1 plus one month keeps its zeros.
C22_Witness ==
  /\ op = "calculate"
  /\ arg = [rat |-> "00010101", pov |-> "1m"]
  /\ result = "00010201"
  /\ isPastDue(result, "20250101")

-----------------------------------------------------------------------------
(* The loader: parseCsvLine, parseCsvData and loadAndProcessData.  The     *)
(* text of a file is the sequence of its lines.                            *)

\* The loop of parseCsvLine from character i on.
RECURSIVE scanCsvLine(_, _, _, _, _)
scanCsvLine(line, i, currentVal, inQuotes, values) ==
  IF i > Len(line) THEN Append(values, currentVal)
  ELSE IF Ch(line, i) = "\""
    THEN IF inQuotes /\ i < Len(line) /\ Ch(line, i + 1) = "\""
           THEN scanCsvLine(line, i + 2, currentVal \o "\"", inQuotes, values)
           ELSE scanCsvLine(line, i + 1, currentVal, ~inQuotes, values)
  ELSE IF Ch(line, i) = "," /\ ~inQuotes
    THEN scanCsvLine(line, i + 1, "", inQuotes, Append(values, currentVal))
  ELSE scanCsvLine(line, i + 1, currentVal \o Ch(line, i), inQuotes, values)

\* A faulty variant that leaves the fields as they are.
trimNone(values) == values

\* values.map(v => v.trim())
trimAll(values) == [i \in 1..Len(values) |-> trim(values[i])]

\* parseCsvLine(line): the fields of the line, trimmed.
parseCsvLine(line) == trimAll(scanCsvLine(line, 1, "", FALSE, <<>>))

\* s without its leading commas.
RECURSIVE dropCommas(_)
dropCommas(s) == IF s # "" /\ Head(s) = "," THEN dropCommas(Tail(s)) ELSE s

\* !line || /^\s*,*\s*$/.test(line)
isBlankLine(line) == trim(dropCommas(trimStart(line))) = ""

\* !text.trim()
isBlankText(text) == \A i \in 1..Len(text) : trim(text[i]) = ""

\* The lines from first to last, the first without its leading and the last
\* without its trailing white space.
trimmedLines(text, first, last) ==
  [i \in 1..(last - first + 1) |->
     IF first = last THEN trim(text[first])
     ELSE IF i = 1 THEN trimStart(text[first])
     ELSE IF i = last - first + 1 THEN trimEnd(text[last])
     ELSE text[first + i - 1]]

\* cleanText.trim().split(/\r?\n/)
splitLines(text) ==
  IF isBlankText(text) THEN <<"">>
  ELSE trimmedLines(text,
         CHOOSE i \in 1..Len(text) : trim(text[i]) # "" /\ \A j \in 1..(i - 1) : trim(text[j]) = "",
         CHOOSE i \in 1..Len(text) : trim(text[i]) # "" /\ \A j \in (i + 1)..Len(text) : trim(text[j]) = "")

\* parseCsvLine(lines[0]).map(h => h.trim()).filter(Boolean)
headersOf(tokens) ==
  LET nonEmpty(h) == h # "" IN SelectSeq(tokens, nonEmpty)

\* lowerCaseHeaders.includes(name.toLowerCase())
hasHeader(headers, name) ==
  \E i \in 1..Len(headers) : toLowerCase(headers[i]) = toLowerCase(name)

\* expectedHeaders.filter(eh => !lowerCaseHeaders.includes(eh.toLowerCase()))
missingHeaders(headers, expectedHeaders) ==
  LET missing(eh) == ~hasHeader(headers, eh) IN SelectSeq(expectedHeaders, missing)

\* missingHeaders.length > 0 && !isOrgHeaderOptional
lacksRequired(missing, filePathForLogging) ==
  /\ Len(missing) > 0
  /\ ~(/\ keyIncludes(filePathForLogging, "additional")
       /\ \A i \in 1..Len(missing) : toLowerCase(missing[i]) = "org")

\* headers.indexOf(headers.find(h => h.toLowerCase() === 'email'))
emailIndexOf(headers) ==
  CHOOSE i \in 1..Len(headers) :
    /\ toLowerCase(headers[i]) = "email"
    /\ \A j \in 1..(i - 1) : toLowerCase(headers[j]) # "email"

\* The row of headers.forEach((header, index) => row[header] = values[index]):
\* of two equal headers the later one's value stays.
rowOf(headers, values) ==
  [h \in {headers[i] : i \in 1..Len(headers)} |->
     values[CHOOSE i \in 1..Len(headers) :
              headers[i] = h /\ \A j \in (i + 1)..Len(headers) : headers[j] # h]]

\* Whether a data line gives a row: it is not blank, has a field for every
\* header, a non-empty email field, and some non-empty value.
givesRow(headers, line, values) ==
  /\ ~isBlankLine(line)
  /\ Len(values) >= Len(headers)
  /\ values[emailIndexOf(headers)] # ""
  /\ \E i \in 1..Len(headers) : values[i] # ""

\* The loop of parseCsvData over the data lines from line i on.
RECURSIVE dataRows(_, _, _)
dataRows(headers, lines, i) ==
  IF i > Len(lines) THEN <<>>
  ELSE IF givesRow(headers, lines[i], parseCsvLine(lines[i]))
    THEN <<rowOf(headers, parseCsvLine(lines[i]))>> \o dataRows(headers, lines, i + 1)
  ELSE dataRows(headers, lines, i + 1)

\* parseCsvData once the lines and the headers are known.
parseWithHeaders(lines, headers, filePathForLogging, expectedHeaders) ==
  IF Len(headers) = 0 THEN <<>>
  ELSE IF lacksRequired(missingHeaders(headers, expectedHeaders), filePathForLogging) THEN <<>>
  ELSE IF Len(lines) = 1 THEN <<>>
  ELSE IF ~hasHeader(headers, "email") THEN <<>>
  ELSE dataRows(headers, lines, 2)

parseLines(lines, filePathForLogging, expectedHeaders) ==
  IF trim(lines[1]) = "" THEN <<>>
  ELSE parseWithHeaders(lines, headersOf(parseCsvLine(lines[1])),
                        filePathForLogging, expectedHeaders)

\* parseCsvData(text, filePathForLogging, expectedHeaders)
parseCsvData(text, filePathForLogging, expectedHeaders) ==
  parseLines(splitLines(text), filePathForLogging, expectedHeaders)

EXPECTED_MAIN_HEADERS == <<"Email", "Product Configurations">>
EXPECTED_ADDITIONAL_HEADERS == <<"Email", "Approver", "rat", "pov", "Org">>
EXPECTED_PAYMENT_HEADERS == <<"Email", "PaymentDate", "Approver", "pov">>

\* f.endsWith(suffix)
endsWith(f, suffix) ==
  Len(f) >= Len(suffix) /\ SubSeq(f, Len(f) - Len(suffix) + 1, Len(f)) = suffix

\* map.set(k, v): a new key goes last, a known key keeps its place.
MapSet(map, k, v) ==
  IF MapHas(map, k)
    THEN [i \in 1..Len(map) |-> IF map[i].key = k THEN [key |-> k, value |-> v] ELSE map[i]]
    ELSE Append(map, [key |-> k, value |-> v])

\* A faulty variant that keeps the case of the email.
emailKeyAsWritten(row) ==
  IF Prop(row, "Email") = Undefined THEN Undefined ELSE trim(Prop(row, "Email"))

\* row['Email']?.trim().toLowerCase()
emailKeyOf(row) ==
  IF Prop(row, "Email") = Undefined THEN Undefined ELSE toLowerCase(trim(Prop(row, "Email")))

\* data.forEach(row => { if (key) map.set(key, row); }), from map on.
RECURSIVE indexRows(_, _)
indexRows(data, map) ==
  IF data = <<>> THEN map
  ELSE indexRows(Tail(data),
                 IF Truthy(emailKeyOf(Head(data)))
                   THEN MapSet(map, emailKeyOf(Head(data)), Head(data))
                   ELSE map)

\* The whole text of a conf file: the files of the model hold one line.
wholeText(text) == IF text = <<>> THEN "" ELSE text[1]

\* A faulty variant that takes every conf file.
isValidConfAlways(orgName, hasRest, rest) == TRUE

\* orgName && subDetailsParts.length > 0
isValidConf(orgName, hasRest, rest) == orgName # "" /\ hasRest

\* const [orgName, ...subDetailsParts] = text.split(','), and the entry made
\* of it: none when the test fails.
confEntryOf(orgName, hasRest, rest) ==
  IF isValidConf(orgName, hasRest, rest)
    THEN [valid |-> TRUE, conf |-> [orgName |-> trim(orgName), subDetails |-> trim(rest)]]
    ELSE [valid |-> FALSE]

parseConf(text) ==
  confEntryOf(upTo(text, ","), Len(upTo(text, ",")) < Len(text),
              SubSeq(text, Len(upTo(text, ",")) + 2, Len(text)))

\* The conf files among the names, and the loop over them: confData, whose
\* keys are knownBaseNames.
RECURSIVE readConfs(_, _, _)
readConfs(files, skipped, confData) ==
  IF files = <<>> THEN confData
  ELSE IF endsWith(Head(files).name, ".conf") /\ Head(files).name \notin skipped
          /\ parseConf(wholeText(Head(files).text)).valid
    THEN readConfs(Tail(files), skipped,
                   (getBaseName(Head(files).name) :> parseConf(wholeText(Head(files).text)).conf)
                     @@ confData)
  ELSE readConfs(Tail(files), skipped, confData)

\* A faulty variant that reads every main CSV file.
isMainCsvAny(name, nonMain, knownBaseNames) ==
  endsWith(name, ".csv") /\ getBaseName(name) \notin nonMain

\* A main CSV file whose rows are read: its base name is known.
isMainCsv(name, nonMain, knownBaseNames) ==
  /\ endsWith(name, ".csv")
  /\ getBaseName(name) \notin nonMain
  /\ getBaseName(name) \in knownBaseNames

\* groupedData.set(baseName, existingData.concat(data)), when data has rows.
grouped(groupedData, baseName, data) ==
  IF Len(data) = 0 THEN groupedData
  ELSE IF MapHas(groupedData, baseName)
    THEN MapSet(groupedData, baseName, MapGet(groupedData, baseName) \o data)
  ELSE MapSet(groupedData, baseName, data)

\* The loop over mainCsvFiles.
RECURSIVE groupFiles(_, _, _, _)
groupFiles(files, nonMain, knownBaseNames, groupedData) ==
  IF files = <<>> THEN groupedData
  ELSE IF isMainCsv(Head(files).name, nonMain, knownBaseNames) /\ ~isBlankText(Head(files).text)
    THEN groupFiles(Tail(files), nonMain, knownBaseNames,
                    grouped(groupedData, getBaseName(Head(files).name),
                            parseCsvData(Head(files).text, Head(files).name, EXPECTED_MAIN_HEADERS)))
  ELSE groupFiles(Tail(files), nonMain, knownBaseNames, groupedData)

\* Array.from(groupedData.entries()).map(...)
dataSourcesOf(groupedData) ==
  [i \in 1..Len(groupedData) |->
     [baseName |-> groupedData[i].key, dataMap |-> indexRows(groupedData[i].value, <<>>)]]

\* csvFiles.find(f => getBaseName(f) === baseName), and the index of its rows.
hasCsv(files, baseName) ==
  \E i \in 1..Len(files) : endsWith(files[i].name, ".csv") /\ getBaseName(files[i].name) = baseName

firstCsv(files, baseName) ==
  files[CHOOSE i \in 1..Len(files) :
          /\ endsWith(files[i].name, ".csv") /\ getBaseName(files[i].name) = baseName
          /\ \A j \in 1..(i - 1) :
               ~(endsWith(files[j].name, ".csv") /\ getBaseName(files[j].name) = baseName)]

indexOfFile(file, expectedHeaders) ==
  IF isBlankText(file.text) THEN <<>>
  ELSE indexRows(parseCsvData(file.text, file.name, expectedHeaders), <<>>)

singleIndex(files, baseName, expectedHeaders) ==
  IF hasCsv(files, baseName) THEN indexOfFile(firstCsv(files, baseName), expectedHeaders)
  ELSE <<>>

\* A faulty variant that lists the files of a directory it cannot read.
publicFilesAnyway(directory) == directory.files

\* fs.readdir(PUBLIC_DIR).catch(err => [])
publicFiles(directory) == IF directory.readable THEN directory.files ELSE <<>>

\* The AppData once confData is known.
appDataOf(files, nonMain, confData) ==
  [dataSources |-> dataSourcesOf(groupFiles(files, nonMain, DOMAIN confData, <<>>)),
   additionalMap |-> singleIndex(files, "additional", EXPECTED_ADDITIONAL_HEADERS),
   paymentMap |-> IF "payment" \in nonMain
                    THEN singleIndex(files, "payment", EXPECTED_PAYMENT_HEADERS) ELSE <<>>,
   confData |-> confData]

\* loadAndProcessData() of the main route.
loadAndProcessData(directory) ==
  appDataOf(publicFiles(directory), {"additional", "payment"},
            readConfs(publicFiles(directory), {"user.conf", "userid.conf"}, <<>>))

\* loadAndProcessData() of /api/v1/query: it has no payment index.
loadAndProcessDataV1(directory) ==
  appDataOf(publicFiles(directory), {"additional"},
            readConfs(publicFiles(directory), {"user.conf", "apipwd.conf"}, <<>>))

-----------------------------------------------------------------------------
(* The standalone count route: its own parseCsvData and row count.         *)

\* The loop of the count route's parseCsvData: no test of the email field.
RECURSIVE looseRows(_, _, _)
looseRows(headers, lines, i) ==
  IF i > Len(lines) THEN <<>>
  ELSE IF /\ ~isBlankLine(lines[i])
          /\ Len(parseCsvLine(lines[i])) >= Len(headers)
          /\ \E k \in 1..Len(headers) : parseCsvLine(lines[i])[k] # ""
    THEN <<rowOf(headers, parseCsvLine(lines[i]))>> \o looseRows(headers, lines, i + 1)
  ELSE looseRows(headers, lines, i + 1)

looseWithHeaders(lines, headers) ==
  IF Len(headers) = 0 \/ Len(lines) = 1 THEN <<>> ELSE looseRows(headers, lines, 2)

looseLines(lines) ==
  IF trim(lines[1]) = "" THEN <<>>
  ELSE looseWithHeaders(lines, headersOf(parseCsvLine(lines[1])))

\* parseCsvData of /api/count: the expected headers are not looked at.
parseCsvDataOfCount(text) == looseLines(splitLines(text))

\* A faulty variant that knows no base name.
knownBaseNamesOfCountNone(files) == {}

\* knownBaseNames of /api/count: the base name of every conf file.
knownBaseNamesOfCount(files) ==
  { getBaseName(files[i].name) :
      i \in { j \in 1..Len(files) :
                /\ endsWith(files[j].name, ".conf")
                /\ files[j].name \notin {"user.conf", "userid.conf", "apipwd.conf"} } }

\* totalRowsCount += data.length over the main CSV files of a known base name.
RECURSIVE countRows(_, _)
countRows(files, knownBaseNames) ==
  IF files = <<>> THEN 0
  ELSE (IF /\ isMainCsv(Head(files).name, {"additional", "payment"}, knownBaseNames)
           /\ ~isBlankText(Head(files).text)
          THEN Len(parseCsvDataOfCount(Head(files).text)) ELSE 0)
       + countRows(Tail(files), knownBaseNames)

\* getUserCount() of /api/count.
getUserCountOfCount(userConf, directory) ==
  [count |-> adjustedCount(countRows(publicFiles(directory),
                                     knownBaseNamesOfCount(publicFiles(directory))),
                           userCountConfigOf(userConf))]

-----------------------------------------------------------------------------
(* Builds from a directory and parses of a text (SpecLoader).              *)

File(name, text) == [name |-> name, text |-> text]

MainHeader == "Email,Product Configurations"

\* The texts of the CSV files of the model.
TextPlain == <<MainHeader, "bob@x.com,CC", " Amy@X.com , PS ">>
TextTwice == <<MainHeader, "bob@x.com,CC", "amy@x.com,PS", "Bob@x.com,AI">>
TextRagged == <<"", MainHeader, "bob@x.com,LR", "zed@x.com", ",CC", ",,", "", "\"eve@x.com\",\"A, \"\"B\"\"\",x", " ">>
TextLowerHeader == <<"email,Product Configurations", "carl@x.com,CC">>
TextUpperHeader == <<"EMAIL,Product Configurations", "carl@x.com,CC", "bob@x.com,PS">>
TextGapHeader == <<"Email,,Product Configurations", "dora@x.com,,CC">>
TextNoProduct == <<"Email", "eve@x.com">>
TextHeaderOnly == <<MainHeader>>
TextAdditional == <<"Email,Approver,rat,pov,Org", "bob@x.com,carol,20240101,12m,alpha",
                    " Amy@X.com ,dave,20250801,1m,">>
TextAdditionalNoOrg == <<"Email,Approver,rat,pov", "amy@x.com,dave,20250801,1m">>
TextAdditionalLower == <<"email,Approver,rat,pov,Org", "bob@x.com,carol,20240101,12m,alpha">>
TextPayment == <<"Email,PaymentDate,Approver,pov", "Bob@x.com,20250802,carol,12m">>

\* What parseCsvData is applied to: a text, the file name, the headers.
ParseInputs ==
  [text : {TextPlain, TextTwice, TextRagged, TextLowerHeader, TextUpperHeader, TextGapHeader,
           TextNoProduct, TextHeaderOnly, <<" ", "">>},
   name : {"alpha.csv"}, expected : {EXPECTED_MAIN_HEADERS}]
  \cup [text : {TextAdditional, TextAdditionalNoOrg, TextAdditionalLower, TextPlain},
        name : {"additional.csv"}, expected : {EXPECTED_ADDITIONAL_HEADERS}]
  \cup [text : {TextPayment, TextAdditional}, name : {"payment.csv"},
        expected : {EXPECTED_PAYMENT_HEADERS}]

\* The conf files of a directory.
ConfAlpha == File("alpha.conf", <<"Alpha School,All Apps plan">>)
ConfBeta == File("beta.conf", <<" Beta Lab , Photo, plan ">>)
ConfNoDetails == File("gamma.conf", <<"Gamma Inc,">>)
ConfNoName == File("delta.conf", <<" ,All Apps">>)
ConfNoComma == File("eps.conf", <<"Epsilon">>)
ConfEmptyName == File("zeta.conf", <<",All Apps">>)
ConfUser == File("user.conf", <<"udgr=150">>)
ConfPayment == File("payment.conf", <<"Bursar,Ledger">>)

ConfSeqs ==
  { <<>>, <<ConfAlpha>>, <<ConfAlpha, ConfBeta>>, <<ConfBeta, ConfNoDetails>>,
    <<ConfNoName, ConfAlpha>>, <<ConfNoComma, ConfEmptyName, ConfBeta>>, <<ConfAlpha, ConfUser>>,
    <<ConfAlpha, ConfPayment>> }

\* The CSV files of a directory, in the order readdir lists them.
CsvSeqs ==
  { <<>>,
    <<File("alpha.csv", TextPlain)>>,
    <<File("alpha.csv", TextTwice)>>,
    <<File("alpha-1.csv", TextPlain), File("alpha-2.csv", TextRagged)>>,
    <<File("alpha-2.csv", TextRagged), File("alpha-1.csv", TextPlain), File("beta.csv", TextPlain)>>,
    <<File("beta.csv", TextLowerHeader), File("alpha.csv", TextPlain)>>,
    <<File("beta.csv", TextUpperHeader)>>,
    <<File("alpha_gap.csv", TextGapHeader)>>,
    <<File("alpha.csv", TextNoProduct), File("orphan.csv", TextPlain)>>,
    <<File("orphan.csv", TextPlain), File("eps.csv", TextPlain), File("gamma.csv", TextPlain),
      File("delta.csv", TextTwice)>>,
    <<File("alpha.csv", TextPlain), File("additional.csv", TextAdditional),
      File("payment.csv", TextPayment)>>,
    <<File("additional.csv", TextAdditionalNoOrg), File("alpha.csv", TextPlain),
      File("additional-old.csv", TextAdditional)>>,
    <<File("additional.csv", TextAdditionalLower), File("beta.csv", TextPlain),
      File("alpha.csv", <<" ">>)>>,
    <<File("payment.csv", TextPlain), File("alpha.csv", TextPlain)>> }

UnreadableDirectory == [readable |-> FALSE, files |-> <<>>]

Directories ==
  {UnreadableDirectory}
  \cup { [readable |-> TRUE, files |-> confs \o csvs] : confs \in ConfSeqs, csvs \in CsvSeqs }

InitLoader ==
  /\ cachedData = NullData
  /\ dataPromise = NoPromise
  /\ build = [id \in BuildIds |-> NoBuild]
  /\ started = 0
  /\ pc = [c \in Callers |-> "idle"]
  /\ handle = [c \in Callers |-> NoHandle]
  /\ got = [c \in Callers |-> NullData]
  /\ op = "none"
  /\ arg = Undefined
  /\ today = Undefined
  /\ result = Undefined
  /\ apiKey = Undefined
  /\ keyFile = Undefined

\* parseCsvData is applied to the text of a file.
Parse ==
  \E input \in ParseInputs :
    /\ op = "none"
    /\ op' = "parse"
    /\ arg' = input
    /\ today' = today
    /\ result' = parseCsvData(input.text, input.name, input.expected)
    /\ UNCHANGED cacheVars

\* loadAndProcessData of the main route builds the AppData of a directory.
Load ==
  \E directory \in Directories :
    /\ op = "none"
    /\ op' = "load"
    /\ arg' = directory
    /\ today' = today
    /\ result' = loadAndProcessData(directory)
    /\ UNCHANGED cacheVars

\* The user count of one directory and one user.conf, as /api/v1/query gives
\* it from its freshly built AppData and as /api/count gives it.
CountBoth ==
  \E directory \in Directories, userConf \in {[readable |-> FALSE, lines |-> <<>>],
                                              [readable |-> TRUE, lines |-> <<"udgr=150", "naud=2">>]} :
    /\ op = "none"
    /\ op' = "counts"
    /\ arg' = [directory |-> directory, userConf |-> userConf]
    /\ today' = today
    /\ result' = [v1 |-> getUserCount(userConf, loadAndProcessDataV1(directory)),
                  standalone |-> getUserCountOfCount(userConf, directory)]
    /\ UNCHANGED cacheVars

NextLoader == Parse \/ Load \/ CountBoth \/ Respond

SpecLoader == InitLoader /\ [][NextLoader]_vars

-----------------------------------------------------------------------------
(* The rows of a text, column by column.                                   *)

\* The fields of a line: split at the commas outside quotes, a doubled
\* quote inside quotes standing for one; each field trimmed.
FieldsOf(line) ==
  LET raw == scanCsvLine(line, 1, "", FALSE, <<>>) IN [i \in 1..Len(raw) |-> trim(raw[i])]

\* The header tokens of the text being parsed, and the columns that survive.
HeaderTokens == FieldsOf(splitLines(arg.text)[1])
SurvivingColumns == {p \in 1..Len(HeaderTokens) : HeaderTokens[p] # ""}
SurvivingNames == {HeaderTokens[p] : p \in SurvivingColumns}

\* The field of a line in column p: empty when the line ends before it.
FieldAt(line, p) == IF p <= Len(FieldsOf(line)) THEN FieldsOf(line)[p] ELSE ""

\* The column of a header name: the last one when the name is repeated; and
\* the column of the email.
ColumnNamed(h) ==
  CHOOSE p \in SurvivingColumns :
    HeaderTokens[p] = h /\ \A q \in SurvivingColumns : HeaderTokens[q] = h => q <= p
EmailColumn ==
  CHOOSE p \in SurvivingColumns :
    /\ toLowerCase(HeaderTokens[p]) = "email"
    /\ \A q \in SurvivingColumns : toLowerCase(HeaderTokens[q]) = "email" => p <= q

\* The file is one the loader reads rows from: every expected header is
\* there, but for Org in the additional file.
HeadersAccepted ==
  \A i \in 1..Len(arg.expected) :
    \/ \E p \in SurvivingColumns : toLowerCase(HeaderTokens[p]) = toLowerCase(arg.expected[i])
    \/ arg.name = "additional.csv" /\ arg.expected[i] = "Org"

\* A data line is accepted: it is not blank, has no fewer fields than there
\* are headers, and its email field is not empty.
LineAccepted(line) ==
  /\ line # ""
  /\ \E p \in 1..Len(FieldsOf(line)) : FieldsOf(line)[p] # ""
  /\ Len(FieldsOf(line)) >= Cardinality(SurvivingColumns)
  /\ FieldAt(line, EmailColumn) # ""

\* The row of a line: each surviving header name with the value of its own
\* column.
OwnColumnRow(line) == [h \in SurvivingNames |-> FieldAt(line, ColumnNamed(h))]

RECURSIVE OwnColumnRows(_, _)
OwnColumnRows(lines, i) ==
  IF i > Len(lines) THEN <<>>
  ELSE IF LineAccepted(lines[i]) THEN <<OwnColumnRow(lines[i])>> \o OwnColumnRows(lines, i + 1)
  ELSE OwnColumnRows(lines, i + 1)

\* The rows parseCsvData returned are those of the accepted lines, each
\* header with the value of its own column.
ParsedByOwnColumn ==
  result = IF HeadersAccepted THEN OwnColumnRows(splitLines(arg.text), 2) ELSE <<>>

\* C23 as stated: for every accepted data line the loader builds a Row that
\* maps each surviving header name to the trimmed value of that header's own
\* column of the line, including when empty header tokens were dropped;
\* lines with fewer fields than headers or an empty email give no Row.
C23_AsStated == op = "parse" => ParsedByOwnColumn

\* C23 for a header line without empty tokens.
C23_RowsFollowHeaders ==
  (op = "parse" /\ SurvivingColumns = 1..Len(HeaderTokens)) => ParsedByOwnColumn

\* A text with a short line, a line without email, blank lines and a quoted
\* field gave its two rows.
C23_Witness ==
  /\ op = "parse"
  /\ arg.text = TextRagged
  /\ Len(result) = 2
  /\ result[2]["Product Configurations"] = "A, \"B\""

-----------------------------------------------------------------------------
(* The indexes of a build and the files they come from.                    *)

\* The email of a parsed row: the value under its email header, whatever
\* the case of the header.
EmailOfRow(row) == row[CHOOSE h \in DOMAIN row : toLowerCase(h) = "email"]

\* The CSV files of the directory that was loaded, by base name.
CsvFilesOf(baseName) ==
  { i \in 1..Len(arg.files) :
      endsWith(arg.files[i].name, ".csv") /\ getBaseName(arg.files[i].name) = baseName }

\* The rows the loader accepted from file i.
AcceptedRows(i, expected) ==
  LET rows == IF isBlankText(arg.files[i].text) THEN <<>>
              ELSE parseCsvData(arg.files[i].text, arg.files[i].name, expected)
  IN {rows[k] : k \in 1..Len(rows)}

\* The main base names: those with an OrgConfig, the two single files apart.
MainBaseNames == DOMAIN result.confData \ {"additional", "payment"}

\* The index built for a main base name: empty when there is no DataSource.
MainIndex(baseName) ==
  IF \E d \in 1..Len(result.dataSources) : result.dataSources[d].baseName = baseName
    THEN result.dataSources[CHOOSE d \in 1..Len(result.dataSources) :
                              result.dataSources[d].baseName = baseName].dataMap
    ELSE <<>>

\* The file the additional, or the payment, index is read from.
SingleFile(baseName) == CHOOSE i \in CsvFilesOf(baseName) : \A j \in CsvFilesOf(baseName) : i <= j

\* Every row of the set has its lowercased, trimmed email as a key of the index.
Reachable(rows, index) ==
  \A row \in rows : EmailOfRow(row) # "" => MapHas(index, toLowerCase(trim(EmailOfRow(row))))

\* The rows of the set whose email header is written 'Email'.
WithEmailHeader(rows) == {row \in rows : "Email" \in DOMAIN row}

\* Every key of the index is the lowercased, trimmed email of its row.
KeysAreEmails(index) ==
  \A i \in 1..Len(index) :
    /\ index[i].key # ""
    /\ index[i].key = toLowerCase(trim(index[i].key))
    /\ index[i].key = toLowerCase(trim(EmailOfRow(index[i].value)))

AllKeysAreEmails ==
  /\ \A d \in 1..Len(result.dataSources) : KeysAreEmails(result.dataSources[d].dataMap)
  /\ KeysAreEmails(result.additionalMap)
  /\ KeysAreEmails(result.paymentMap)

\* C24 as stated: a CSV whose email header differs from 'Email' only in
\* letter case is accepted, and every one of its rows with a non-empty email
\* is reachable in the resulting index under its lowercased, trimmed email;
\* every key of every index is such an email.
C24_AsStated ==
  op = "load" =>
    /\ \A b \in MainBaseNames : \A i \in CsvFilesOf(b) :
         Reachable(AcceptedRows(i, EXPECTED_MAIN_HEADERS), MainIndex(b))
    /\ CsvFilesOf("additional") # {} =>
         Reachable(AcceptedRows(SingleFile("additional"), EXPECTED_ADDITIONAL_HEADERS),
                   result.additionalMap)
    /\ CsvFilesOf("payment") # {} =>
         Reachable(AcceptedRows(SingleFile("payment"), EXPECTED_PAYMENT_HEADERS),
                   result.paymentMap)
    /\ AllKeysAreEmails

\* C24 for files whose email header is written exactly 'Email'.
C24_KeysAreEmails ==
  op = "load" =>
    /\ \A b \in MainBaseNames : \A i \in CsvFilesOf(b) :
         Reachable(WithEmailHeader(AcceptedRows(i, EXPECTED_MAIN_HEADERS)), MainIndex(b))
    /\ CsvFilesOf("additional") # {} =>
         Reachable(WithEmailHeader(AcceptedRows(SingleFile("additional"),
                                                EXPECTED_ADDITIONAL_HEADERS)),
                   result.additionalMap)
    /\ CsvFilesOf("payment") # {} =>
         Reachable(WithEmailHeader(AcceptedRows(SingleFile("payment"),
                                                EXPECTED_PAYMENT_HEADERS)),
                   result.paymentMap)
    /\ AllKeysAreEmails

\* The row written ' Amy@X.com ' is under amy@x.com, in the main index and
\* in the additional one; the payment of Bob@x.com is under bob@x.com.
C24_Witness ==
  /\ op = "load"
  /\ Len(result.dataSources) = 1
  /\ MapHas(result.dataSources[1].dataMap, "amy@x.com")
  /\ MapHas(result.additionalMap, "amy@x.com")
  /\ MapHas(result.paymentMap, "bob@x.com")

-----------------------------------------------------------------------------
(* The OrgConfig entries of a build.                                       *)

\* The org config files of the directory that was loaded.
OrgConfFiles ==
  { i \in 1..Len(arg.files) :
      endsWith(arg.files[i].name, ".conf") /\ arg.files[i].name \notin {"user.conf", "userid.conf"} }

\* The text of file i before its first comma, and after it.
NamePart(i) == upTo(wholeText(arg.files[i].text), ",")
HasComma(i) == Len(NamePart(i)) < Len(wholeText(arg.files[i].text))
RestPart(i) ==
  SubSeq(wholeText(arg.files[i].text), Len(NamePart(i)) + 2, Len(wholeText(arg.files[i].text)))

\* C25 as stated: a file yields an OrgConfig entry only if both the orgName
\* part and the rest are non-empty after trimming, so every entry of
\* confData has a non-empty orgName and non-empty subscription details, and
\* a DataSource exists only for such an entry.
C25_AsStated ==
  op = "load" =>
    /\ \A b \in DOMAIN result.confData :
         result.confData[b].orgName # "" /\ result.confData[b].subDetails # ""
    /\ \A d \in 1..Len(result.dataSources) :
         /\ result.dataSources[d].baseName \in DOMAIN result.confData
         /\ result.confData[result.dataSources[d].baseName].subDetails # ""

\* C25 as the code has it: an entry is made of the last file of its base
\* name that has a comma and a non-empty text before it; its orgName and
\* subDetails are the two parts, trimmed.
C25_EntryNeedsCommaAndName ==
  op = "load" =>
    /\ \A i \in OrgConfFiles :
         (HasComma(i) /\ NamePart(i) # "") => getBaseName(arg.files[i].name) \in DOMAIN result.confData
    /\ \A b \in DOMAIN result.confData :
         \E i \in OrgConfFiles :
           /\ getBaseName(arg.files[i].name) = b
           /\ HasComma(i) /\ NamePart(i) # ""
           /\ result.confData[b] = [orgName |-> trim(NamePart(i)), subDetails |-> trim(RestPart(i))]

\* beta.conf, ' Beta Lab , Photo, plan ', gave its entry and a DataSource.
C25_Witness ==
  /\ op = "load"
  /\ "beta" \in DOMAIN result.confData
  /\ result.confData["beta"] = [orgName |-> "Beta Lab", subDetails |-> "Photo, plan"]
  /\ \E d \in 1..Len(result.dataSources) : result.dataSources[d].baseName = "beta"
  /\ "eps" \notin DOMAIN result.confData

-----------------------------------------------------------------------------
(* The DataSources of a build.                                             *)

\* The rows of the main CSV files of a base name, file after file in the
\* order of the directory, from file i on.
RECURSIVE RowsOfBaseName(_, _)
RowsOfBaseName(baseName, i) ==
  IF i > Len(arg.files) THEN <<>>
  ELSE (IF i \in CsvFilesOf(baseName) /\ ~isBlankText(arg.files[i].text)
          THEN parseCsvData(arg.files[i].text, arg.files[i].name, EXPECTED_MAIN_HEADERS)
          ELSE <<>>)
       \o RowsOfBaseName(baseName, i + 1)

\* The key a row is filed under: none when it has no 'Email'.
KeyOfRow(row) == IF "Email" \in DOMAIN row THEN toLowerCase(trim(row["Email"])) ELSE ""

\* The index is the rows merged: one entry per email, holding its last row.
IsMergeOf(index, rows) ==
  /\ MapKeys(index) = {KeyOfRow(rows[k]) : k \in 1..Len(rows)} \ {""}
  /\ \A i \in 1..Len(index) :
       \E k \in 1..Len(rows) :
         /\ KeyOfRow(rows[k]) = index[i].key
         /\ index[i].value = rows[k]
         /\ \A l \in (k + 1)..Len(rows) : KeyOfRow(rows[l]) # index[i].key

\* The emails written in the directory, as they would be searched.
SearchedEmails == {"bob@x.com", "amy@x.com", "zed@x.com", "eve@x.com", "carl@x.com"}

\* C26: in every AppData a build produces, each DataSource's baseName is a
\* key of confData and no two DataSources share a baseName; the main CSV
\* files of one basename are merged into one index, the last row of an email
\* winning; files whose basename has no OrgConfig contribute nothing; and in
\* exact search the number of matched configs is the number of DataSources
\* containing the email.
C26_DataSourcesHaveConfigs ==
  op = "load" =>
    /\ \A d \in 1..Len(result.dataSources) :
         /\ result.dataSources[d].baseName \in MainBaseNames
         /\ \A e \in 1..Len(result.dataSources) :
              result.dataSources[e].baseName = result.dataSources[d].baseName => e = d
         /\ IsMergeOf(result.dataSources[d].dataMap,
                      RowsOfBaseName(result.dataSources[d].baseName, 1))
    /\ \A b \in MainBaseNames :
         (\A d \in 1..Len(result.dataSources) : result.dataSources[d].baseName # b)
           => RowsOfBaseName(b, 1) = <<>>
    /\ \A email \in SearchedEmails :
         Len(foundInOrgs(email, result))
           = Cardinality({d \in 1..Len(result.dataSources) :
                            MapHas(result.dataSources[d].dataMap, email)})

\* Two files of alpha were merged, bob's row of the later file winning, and
\* beta made a DataSource of its own: bob is matched twice.
C26_Witness ==
  /\ op = "load"
  /\ Len(result.dataSources) = 2
  /\ result.dataSources[1].baseName = "alpha"
  /\ MapGet(result.dataSources[1].dataMap, "bob@x.com")["Product Configurations"] = "CC"
  /\ MapHas(result.dataSources[1].dataMap, "eve@x.com")
  /\ Len(foundInOrgs("bob@x.com", result)) = 2
  /\ \E i \in 1..Len(arg.files) : arg.files[i].name = "alpha-2.csv"

-----------------------------------------------------------------------------
(* getData over the directory: builds that read it (SpecBuild).            *)

\* The directories a build may find: one that cannot be read, an empty one
\* and one with a config, its CSV and the additional file.
SampleFiles ==
  <<ConfAlpha, File("alpha.csv", TextPlain), File("additional.csv", TextAdditional)>>
LockedDirectory == [readable |-> FALSE, files |-> SampleFiles]
BuildDirectories ==
  {LockedDirectory, [readable |-> TRUE, files |-> <<>>], [readable |-> TRUE, files |-> SampleFiles]}

\* loadAndProcessData reads the directory and returns: its promise is
\* fulfilled with the AppData; readable tells how readdir ended.
LoadDirectory(id) ==
  \E directory \in BuildDirectories :
    /\ build[id].phase = "running"
    /\ build' = [build EXCEPT ![id] = [phase |-> "loaded",
                                       data |-> loadAndProcessData(directory),
                                       readable |-> directory.readable]]
    /\ UNCHANGED <<cachedData, dataPromise, started, pc, handle, got>>
    /\ UNCHANGED <<queryVars, authVars>>

NextBuild ==
  \/ \E c \in Callers : GetData(c) \/ Resume(c) \/ Finish(c)
  \/ \E id \in BuildIds : LoadDirectory(id) \/ LoadFails(id)
                            \/ ThenCallback(id) \/ CatchCallback(id)

SpecBuild == InitCache /\ [][NextBuild]_vars

\* The builds whose reading of the directory failed.
UnreadableBuilds ==
  {id \in BuildIds : build[id].phase \in {"loaded", "fulfilled"} /\ ~build[id].readable}

\* C27: when reading the data directory fails, the build does not fail but
\* completes with an empty AppData; that build is memoized like any other,
\* so every later query sees the empty dataset and the directory is never
\* read again.
C27_UnreadableDirectoryIsMemoized ==
  /\ [](\A id \in UnreadableBuilds : build[id].data = EmptyAppData)
  /\ []((\E id \in UnreadableBuilds : build[id].phase = "fulfilled") =>
          /\ cachedData = EmptyAppData
          /\ \A c \in Callers : pc[c] = "done" => got[c] = EmptyAppData)
  /\ [][(\E id \in UnreadableBuilds : build[id].phase = "fulfilled") =>
          (cachedData' = cachedData /\ started' = started /\ build' = build)]_vars

\* After the build of an unreadable directory, a later call was served the
\* empty dataset from the cache.
C27_Witness ==
  /\ cachedData = EmptyAppData
  /\ \E id \in UnreadableBuilds : build[id].phase = "fulfilled"
  /\ \E c \in Callers :
       pc[c] = "done" /\ handle[c].kind = "resolved" /\ got[c] = EmptyAppData

-----------------------------------------------------------------------------
(* The proxy dashboard against the expired listing and the quick audit.    *)

\* The emails of the proxy records with a tag.
TaggedEmails(tag) == {result[i].email : i \in {k \in 1..Len(result) : result[k].tag = tag}}

\* The emails the expired listing gives for the same AppData, role and day.
ExpiredListing ==
  LET listing == getExpiredAccounts(cachedData, arg, today)
  IN {listing[i].email : i \in 1..Len(listing)}

\* C28: for the admin role, against the same AppData and the same today,
\* the emails whose proxy record is tagged 'Authorization Expired' are the
\* emails of the expired-accounts listing: every expired account still in a
\* main source survives the proxy's drop-if-Invalid step, and nothing else
\* gets the tag.
C28_ProxyExpiredIsExpiredListing ==
  (op = "proxy" /\ toLowerCase(arg) = "admin") =>
    TaggedEmails("Authorization Expired") = ExpiredListing

\* An admin's dashboard with an expired account and one that is not.
C28_Witness ==
  /\ op = "proxy"
  /\ arg = "admin"
  /\ Len(result) = 2
  /\ Cardinality(TaggedEmails("Authorization Expired")) = 1
  /\ ExpiredListing # {}

\* C29: no proxy record carries the tag 'Not Registered': for every AppData
\* and role the tag is 'Authorization Expired', 'Not Paid' or empty.
C29_ProxyNeverNotRegistered ==
  op = "proxy" =>
    \A i \in 1..Len(result) : result[i].tag \in {"Authorization Expired", "Not Paid", ""}

\* A dashboard with a 'Not Paid' record, while the quick audit of the same
\* AppData lists a 'Not Registered' email.
C29_Witness ==
  /\ op = "proxy"
  /\ TaggedEmails("Not Paid") # {}
  /\ \E i \in 1..Len(getQuickAuditAccounts(cachedData)) :
       getQuickAuditAccounts(cachedData)[i].reason = "Not Registered"

-----------------------------------------------------------------------------
(* The user count of the v1 query route against the count route.           *)

\* C30 as stated: for the same directory and the same user.conf, the user
\* count of the v1 query route equals the count of the standalone count
\* route.
C30_AsStated ==
  op = "counts" => result.v1.count = result.standalone.count

\* The names of the files of the directory the counts were taken from.
CountedNames == {arg.directory.files[i].name : i \in 1..Len(arg.directory.files)}

\* C30, the part that holds: where no file is named after the payment file,
\* the v1 route never counts more than the count route. The v1 route counts
\* the distinct emails of the rows its loader accepts, in the files whose
\* conf file gives a config entry; the count route counts every parsed row
\* of every main CSV file that has a conf file at all.
C30_V1NeverCountsMore ==
  (op = "counts" /\ CountedNames \cap {"payment.csv", "payment.conf"} = {}) =>
    result.v1.count <= result.standalone.count

\* Two counts of one directory that agree and are not zero.
C30_Witness ==
  /\ op = "counts"
  /\ CountedNames \cap {"payment.csv", "payment.conf"} = {}
  /\ result.v1.count > 0
  /\ result.v1.count = result.standalone.count

\* A directory with payment.conf and a payment.csv under the main headers:
\* the v1 route counts its rows, the count route does not.
C30_PaymentCounted ==
  /\ op = "counts"
  /\ result.v1.count > result.standalone.count

=============================================================================
